---- MODULE Spec2Model ----
(***************************************************************************)
(* Model of the position/account fetch-and-normalize pipeline of the       *)
(* hyperliquid-position repository: the freshness cache                    *)
(* (src/src/services/cache_service.py), the fetch orchestrator             *)
(* (src/src/services/position_service.py) and the remote client with its   *)
(* normalizer (src/src/services/hyperliquid_api.py, src/src/models).       *)
(*                                                                         *)
(* Time is the integer number of seconds returned by time.time(); the      *)
(* clock advances in steps of TickStep seconds.  Python's None is the      *)
(* record None; every payload is a record, so the two are comparable.      *)
(***************************************************************************)
EXTENDS Integers, Sequences, FiniteSets, TLC

VARIABLES
    now,      \* time.time()
    cache,    \* CacheService._cache : key -> CacheEntry
    res,      \* the last cache operation: its name, arguments and return value
    raw,      \* the raw responses the exchange gives to a direct API call
    out,      \* what the last direct call of HyperliquidAPIService returned
    pc,       \* per caller: where it stands in its PositionService call
    call,     \* per caller: the arguments, locals and result of its call
    ncalls    \* the number of PositionService calls started so far

cacheVars == <<now, cache, res>>
normVars == <<raw, out>>
orchVars == <<pc, call, ncalls>>
vars == <<now, cache, res, raw, out, pc, call, ncalls>>

(***************************************************************************)
(* Bounds                                                                  *)
(***************************************************************************)
TickStep == 10
MaxTicks == 9
MaxTime == MaxTicks * TickStep

(***************************************************************************)
(* Program constants                                                       *)
(***************************************************************************)
default_ttl == 30

POSITIONS_KEY == "positions"
ACCOUNT_KEY == "account_summary"
PRICES_KEY == "mark_prices"
FILLS_KEY == "user_fills"
ORDERS_KEY == "open_orders"

None == [none |-> TRUE]

\* an omitted max_age argument (max_age: Optional[float] = None)
NoMaxAge == -1

(***************************************************************************)
(* CacheEntry and CacheService                                             *)
(***************************************************************************)
CacheEntry(data, timestamp) == [data |-> data, timestamp |-> timestamp]

age(entry, t) == t - entry.timestamp

\* mutant: the boundary age counts as expired
is_expired_ge(entry, max_age, t) == age(entry, t) >= max_age

is_expired(entry, max_age, t) == age(entry, t) > max_age

\* mutant: without a max_age of its own a lookup lets no time pass
EffectiveMaxAge_zero(max_age) == IF max_age = NoMaxAge THEN 0 ELSE max_age

\* lines 41-42: if max_age is None: max_age = self.default_ttl
EffectiveMaxAge(max_age) == IF max_age = NoMaxAge THEN default_ttl ELSE max_age

\* dict without one key
DictDel(d, key) == [k \in (DOMAIN d) \ {key} |-> d[k]]

\* dict with one key (re)bound
DictPut(d, key, val) == [k \in (DOMAIN d) \cup {key} |-> IF k = key THEN val ELSE d[k]]

\* CacheService.get: the returned value
get_ret(c, key, max_age, t) ==
    IF key \notin DOMAIN c THEN None
    ELSE IF is_expired(c[key], EffectiveMaxAge(max_age), t) THEN None
    ELSE c[key].data

\* CacheService.get: the cache it leaves behind
get_cache(c, key, max_age, t) ==
    IF key \notin DOMAIN c THEN c
    ELSE IF is_expired(c[key], EffectiveMaxAge(max_age), t) THEN DictDel(c, key)
    ELSE c

\* CacheService.set
set_cache(c, key, data, t) == DictPut(c, key, CacheEntry(data, t))

\* CacheService.cleanup_expired: the keys it deletes
expired_keys(c, max_age, t) ==
    {key \in DOMAIN c : is_expired(c[key], EffectiveMaxAge(max_age), t)}

cleanup_cache(c, max_age, t) ==
    [k \in (DOMAIN c) \ expired_keys(c, max_age, t) |-> c[k]]

\* mutant: the number of entries left instead of the number removed
cleanup_ret_left(c, max_age, t) == Cardinality((DOMAIN c) \ expired_keys(c, max_age, t))

cleanup_ret(c, max_age, t) == Cardinality(expired_keys(c, max_age, t))

(***************************************************************************)
(* Freshness as the cache contract words it (used to state the claims and  *)
(* to record what a call could have found, never to compute a result)      *)
(***************************************************************************)
\* the threshold the caller means: its own max_age or the configured TTL
Threshold(max_age) == IF max_age = NoMaxAge THEN default_ttl ELSE max_age

\* the entry under key exists and is not older than the threshold
Fresh(c, key, max_age, t) ==
    /\ key \in DOMAIN c
    /\ t - c[key].timestamp <= Threshold(max_age)

(***************************************************************************)
(* Raw exchange JSON.  A raw field value is one of                         *)
(*   Num(n)   a number or a numeric string,                                *)
(*   Bad      a string that is not a number,                               *)
(*   Null     JSON null,                                                   *)
(*   Absent   the key is missing,                                          *)
(*   Dict(n)  a JSON object {"value": n}.                                  *)
(***************************************************************************)
Num(n) == [t |-> "num", v |-> n]
Bad == [t |-> "bad", v |-> 0]
Null == [t |-> "null", v |-> 0]
Absent == [t |-> "absent", v |-> 0]
Dict(n) == [t |-> "dict", v |-> n]

Ok(v) == [exc |-> "none", v |-> v]
Raise(e) == [exc |-> e, v |-> 0]

\* Python float(x)
Float(x) ==
    CASE x.t = "num" -> Ok(x.v)
      [] x.t = "bad" -> Raise("ValueError")
      [] OTHER -> Raise("TypeError")

\* d.get(key, default): the default replaces a missing key only
GetOr(x, default) == IF x.t = "absent" THEN default ELSE x

Abs(n) == IF n < 0 THEN -n ELSE n

\* the first exception of a sequence of evaluations, "none" if there is none
RECURSIVE FirstExc(_)
FirstExc(rs) ==
    IF rs = <<>> THEN "none"
    ELSE IF Head(rs).exc # "none" THEN Head(rs).exc
    ELSE FirstExc(Tail(rs))

(***************************************************************************)
(* Position (src/src/models/position.py)                                   *)
(***************************************************************************)
LONG == "LONG"
SHORT == "SHORT"

\* float(x) if x is not None else default
FloatOrDefault(x, default) == IF x.t = "null" THEN Ok(default) ELSE Float(x)

\* leverage_data = position_data.get("leverage", {}); a dict gives its
\* "value" (default 1), anything else is taken as the value itself
leverage_value(x) ==
    CASE x.t = "absent" -> Num(1)
      [] x.t = "dict" -> Num(x.v)
      [] OTHER -> x

side_of(s) == IF s > 0 THEN LONG ELSE SHORT

\* Position.from_api_data(data); pd is data.get("position", {})
Position_from_api_data(pd) ==
    IF GetOr(pd.szi, Null).t = "null" THEN Raise("ValueError")
    ELSE
    LET szi == Float(pd.szi)
        entry_px == FloatOrDefault(GetOr(pd.entryPx, Num(0)), 0)
        liq_px == FloatOrDefault(GetOr(pd.liquidationPx, Num(0)), 0)
        unrealized_pnl == FloatOrDefault(GetOr(pd.unrealizedPnl, Num(0)), 0)
        leverage == FloatOrDefault(leverage_value(pd.leverage), 1)
        margin_used == FloatOrDefault(GetOr(pd.marginUsed, Num(0)), 0)
        exc == FirstExc(<<szi, entry_px, liq_px, unrealized_pnl, leverage, margin_used>>)
    IN  IF exc # "none" THEN Raise(exc)
        ELSE Ok([symbol |-> IF pd.coin = "" THEN "Unknown" ELSE pd.coin,
                 side |-> side_of(szi.v),
                 size |-> Abs(szi.v),
                 entry_price |-> entry_px.v,
                 mark_price |-> 0,
                 liq_price |-> liq_px.v,
                 unrealized_pnl |-> unrealized_pnl.v,
                 leverage |-> leverage.v,
                 margin_used |-> margin_used.v])

position_value(p) == p.size * p.mark_price

update_mark_price(p, mark_price) == [p EXCEPT !.mark_price = mark_price]

(***************************************************************************)
(* HyperliquidAPIService (src/src/services/hyperliquid_api.py)             *)
(***************************************************************************)
\* exceptions the per-record handlers catch: except (ValueError, KeyError)
CaughtPerRecord == {"ValueError", "KeyError"}

\* symbols that start with '@' (index-based entries of allMids)
AtSymbols == {"@1"}

\* get_mark_prices: the PriceCollection built from the allMids response;
\* a failed or empty response gives the empty collection
get_mark_prices(presp) ==
    IF presp.status # "ok" THEN [s \in {} |-> 0]
    ELSE [s \in {x \in DOMAIN presp.mids :
                    x \notin AtSymbols /\ Float(presp.mids[x]).exc = "none"}
            |-> Float(presp.mids[s]).v]

\* PriceCollection.get_price_value
get_price_value(coll, symbol) == IF symbol \in DOMAIN coll THEN Num(coll[symbol]) ELSE Null

\* mutant: a zero size is not filtered out
is_zero_size_never(szi) == FALSE

\* abs(float(szi_value)) == 0
is_zero_size(szi) == Abs(szi.v) = 0

\* one iteration of the loop over assetPositions (lines 96-111):
\* acc is [exc, active, log]
positions_step(acc, item) ==
    IF acc.exc # "none" THEN acc
    ELSE IF item.position = "null" THEN [acc EXCEPT !.exc = "AttributeError"]
    ELSE
    LET pd == IF item.position = "absent"
              THEN [item EXCEPT !.szi = Absent] ELSE item
        szi_value == GetOr(pd.szi, Null)
    IN  IF szi_value.t = "null" THEN acc
        ELSE IF Float(szi_value).exc \in CaughtPerRecord
             THEN [acc EXCEPT !.log = @ + 1]
        ELSE IF Float(szi_value).exc # "none"
             THEN [acc EXCEPT !.exc = Float(szi_value).exc]
        ELSE IF is_zero_size(Float(szi_value)) THEN acc
        ELSE LET r == Position_from_api_data(pd)
             IN  IF r.exc = "none" THEN [acc EXCEPT !.active = Append(@, r.v)]
                 ELSE IF r.exc \in CaughtPerRecord THEN [acc EXCEPT !.log = @ + 1]
                 ELSE [acc EXCEPT !.exc = r.exc]

RECURSIVE positions_loop(_, _)
positions_loop(acc, items) ==
    IF items = <<>> THEN acc
    ELSE positions_loop(positions_step(acc, Head(items)), Tail(items))

\* get_positions up to line 111: the request and the normalization;
\* a failed request gives the empty list
normalize_positions(resp) ==
    IF resp.status # "ok" THEN [exc |-> "none", active |-> <<>>, log |-> 0]
    ELSE positions_loop([exc |-> "none", active |-> <<>>, log |-> 0], resp.items)

\* mutant: a position without a quote is valued at its entry price
hydrate_one_entry(p, coll) ==
    LET mark_price == get_price_value(coll, p.symbol)
    IN  IF mark_price.t = "num" /\ mark_price.v # 0
        THEN update_mark_price(p, mark_price.v)
        ELSE update_mark_price(p, p.entry_price)

\* if mark_price: position.update_mark_price(mark_price)
hydrate_one(p, coll) ==
    LET mark_price == get_price_value(coll, p.symbol)
    IN  IF mark_price.t = "num" /\ mark_price.v # 0
        THEN update_mark_price(p, mark_price.v) ELSE p

\* get_positions lines 113-124: the price lookup for the active positions
hydrate(active, coll) == [i \in 1..Len(active) |-> hydrate_one(active[i], coll)]

\* get_positions: the whole call; price_requested tells whether the
\* secondary allMids request was issued
get_positions(resp, presp) ==
    LET n == normalize_positions(resp)
    IN  [exc |-> n.exc,
         active |-> n.active,
         log |-> n.log,
         price_requested |-> (n.exc = "none" /\ n.active # <<>>),
         prices |-> IF n.exc = "none" /\ n.active # <<>>
                    THEN get_mark_prices(presp) ELSE [s \in {} |-> 0],
         positions |-> IF n.exc = "none" /\ n.active # <<>>
                       THEN hydrate(n.active, get_mark_prices(presp))
                       ELSE n.active]

(***************************************************************************)
(* AccountSummary (src/src/models/account.py) and get_account_summary      *)
(***************************************************************************)
\* AccountSummary.from_api_data
AccountSummary_from_api_data(m) ==
    LET account_value == Float(GetOr(m.accountValue, Num(0)))
        total_ntl_pos == Float(GetOr(m.totalNtlPos, Num(0)))
        total_raw_usd == Float(GetOr(m.totalRawUsd, Num(0)))
        total_margin_used == Float(GetOr(m.totalMarginUsed, Num(0)))
        exc == FirstExc(<<account_value, total_ntl_pos, total_raw_usd, total_margin_used>>)
    IN  IF exc # "none" THEN Raise(exc)
        ELSE Ok([account_value |-> account_value.v,
                 total_ntl_pos |-> total_ntl_pos.v,
                 total_raw_usd |-> total_raw_usd.v,
                 total_margin_used |-> total_margin_used.v])

\* HyperliquidAPIService.get_account_summary: the summary, None when the
\* request failed, the margin summary is missing or a field is not numeric
get_account_summary(resp) ==
    IF resp.status # "ok" THEN Ok(None)
    ELSE IF ~resp.margin.present THEN Ok(None)
    ELSE LET r == AccountSummary_from_api_data(resp.margin)
         IN  IF r.exc = "none" THEN r
             ELSE IF r.exc \in CaughtPerRecord THEN Ok(None)
             ELSE Raise(r.exc)

(***************************************************************************)
(* Order and OrderFill (src/src/models/order.py)                           *)
(***************************************************************************)
Str(x) == [t |-> "str", v |-> x]

BUY == "BUY"
SELL == "SELL"
TAKER == "TAKER"
MAKER == "MAKER"
LIMIT == "LIMIT"
OrderTypes == {"LIMIT", "STOP", "MARKET"}

\* str.upper() on the order type strings the model uses
Upper(x) ==
    CASE x \in {"limit", "Limit", "LIMIT"} -> "LIMIT"
      [] x \in {"stop", "STOP"} -> "STOP"
      [] x \in {"market", "MARKET"} -> "MARKET"
      [] OTHER -> "TRIGGER"

\* x.upper() for a raw field value: only a string has the method
UpperOf(x) == IF x.t = "str" THEN Ok(Upper(x.v)) ELSE Raise("AttributeError")

\* the first key of the list that is present, else the default
RECURSIVE FirstPresent(_, _)
FirstPresent(xs, default) ==
    IF xs = <<>> THEN default
    ELSE IF Head(xs).t # "absent" THEN Head(xs)
    ELSE FirstPresent(Tail(xs), default)

order_side(side_code) ==
    IF side_code = "A" THEN SELL ELSE IF side_code = "B" THEN BUY ELSE BUY

fill_role(side_code) ==
    IF side_code = "A" THEN TAKER ELSE IF side_code = "B" THEN MAKER ELSE TAKER

\* Order.from_api_data
Order_from_api_data(d) ==
    LET symbol == IF d.coin # "" THEN d.coin
                  ELSE IF d.symbol # "" THEN d.symbol ELSE "Unknown"
        size == Float(FirstPresent(<<d.sz, d.size>>, Num(0)))
        price == Float(FirstPresent(<<d.limitPx, d.px, d.price>>, Num(0)))
        order_type_str == UpperOf(FirstPresent(<<d.orderType, d.type>>, Str("LIMIT")))
        exc == FirstExc(<<size, price, order_type_str>>)
    IN  IF exc # "none" THEN Raise(exc)
        ELSE Ok([symbol |-> symbol,
                 side |-> order_side(d.side),
                 size |-> size.v,
                 price |-> price.v,
                 order_type |-> IF order_type_str.v \in OrderTypes
                                THEN order_type_str.v ELSE LIMIT])

\* timestamp_ms / 1000 needs a number
TimestampOf(x) ==
    CASE x.t \in {"null", "absent"} -> Ok([at |-> "now", ms |-> 0])
      [] x.t = "num" -> Ok(IF x.v = 0 THEN [at |-> "now", ms |-> 0]
                           ELSE [at |-> "epoch", ms |-> x.v])
      [] OTHER -> Raise("TypeError")

\* OrderFill.from_api_data
OrderFill_from_api_data(d) ==
    LET size == Float(GetOr(d.sz, Num(0)))
        price == Float(GetOr(d.px, Num(0)))
        fee == Float(GetOr(d.fee, Num(0)))
        closed_pnl == Float(GetOr(d.closedPnl, Num(0)))
        timestamp == TimestampOf(d.time)
        exc == FirstExc(<<size, price, fee, closed_pnl, timestamp>>)
    IN  IF exc # "none" THEN Raise(exc)
        ELSE Ok([symbol |-> IF d.coin = "" THEN "Unknown" ELSE d.coin,
                 role |-> fill_role(d.side),
                 size |-> size.v,
                 price |-> price.v,
                 timestamp |-> timestamp.v,
                 fee |-> fee.v,
                 closed_pnl |-> closed_pnl.v])

(***************************************************************************)
(* get_user_fills and get_open_orders                                      *)
(***************************************************************************)
\* xs[:limit]
Take(xs, limit) == SubSeq(xs, 1, IF limit < Len(xs) THEN limit ELSE Len(xs))

\* the sort key x.get('time', 0)
time_key(item) == GetOr(item.time, Num(0))

\* list.sort raises when two keys cannot be compared (None, or an object)
sort_raises(items) ==
    /\ Len(items) >= 2
    /\ \E i \in 1..Len(items) : time_key(items[i]).t # "num"

\* insert x after the elements whose key is not smaller (stable, descending)
RECURSIVE insert_desc(_, _)
insert_desc(x, sorted) ==
    IF sorted = <<>> THEN <<x>>
    ELSE IF time_key(Head(sorted)).v >= time_key(x).v
         THEN <<Head(sorted)>> \o insert_desc(x, Tail(sorted))
         ELSE <<x>> \o sorted

\* fills_data.sort(key=lambda x: x.get('time', 0), reverse=True)
RECURSIVE sort_by_time_desc(_)
sort_by_time_desc(items) ==
    IF items = <<>> THEN <<>>
    ELSE insert_desc(items[Len(items)], sort_by_time_desc(SubSeq(items, 1, Len(items) - 1)))

\* one iteration of a per-record loop: acc is [exc, items, log]
record_step(acc, r) ==
    IF acc.exc # "none" THEN acc
    ELSE IF r.exc = "none" THEN [acc EXCEPT !.items = Append(@, r.v)]
    ELSE IF r.exc \in CaughtPerRecord THEN [acc EXCEPT !.log = @ + 1]
    ELSE [acc EXCEPT !.exc = r.exc]

RECURSIVE fills_loop(_, _)
fills_loop(acc, items) ==
    IF items = <<>> THEN acc
    ELSE fills_loop(record_step(acc, OrderFill_from_api_data(Head(items))), Tail(items))

RECURSIVE orders_loop(_, _)
orders_loop(acc, items) ==
    IF items = <<>> THEN acc
    ELSE orders_loop(record_step(acc, Order_from_api_data(Head(items))), Tail(items))

EmptyResult == [exc |-> "none", items |-> <<>>, log |-> 0]

\* HyperliquidAPIService.get_user_fills(limit)
get_user_fills(resp, limit) ==
    IF resp.status # "ok" \/ resp.items = <<>> THEN EmptyResult
    ELSE IF sort_raises(resp.items) THEN [EmptyResult EXCEPT !.exc = "TypeError"]
    ELSE fills_loop(EmptyResult, Take(sort_by_time_desc(resp.items), limit))

\* HyperliquidAPIService.get_open_orders(limit)
get_open_orders(resp, limit) ==
    IF resp.status # "ok" \/ resp.items = <<>> THEN EmptyResult
    ELSE orders_loop(EmptyResult, Take(resp.items, limit))

(***************************************************************************)
(* The callers of PositionService: the scheduled refresh loop and the      *)
(* command handlers share one PositionService and one cache.               *)
(***************************************************************************)
Callers == {"scheduler", "command"}

\* Settings.price_symbols
price_symbols == <<"BTC", "ETH", "SOL">>

\* symbols: Optional[List[str]] = None
NoSymbols == <<>>

\* the locals of a PositionService call; id numbers the call, and a payload
\* built by the call carries the id as its fetch cycle
NoCall ==
    [id |-> 0, op |-> "none", use_cache |-> FALSE, force_refresh |-> FALSE,
     limit |-> 0, symbols |-> NoSymbols, t0 |-> 0,
     cached_positions |-> None, cached_account |-> None, cached |-> None,
     fresh_positions |-> FALSE, fresh_account |-> FALSE,
     positions |-> None, account_summary |-> None, data |-> None,
     requests |-> <<>>, hit |-> FALSE, returned |-> FALSE, ret |-> None,
     prev |-> None]

\* what a caller remembers of its previous call
Summary(k) ==
    [op |-> k.op, use_cache |-> k.use_cache, force_refresh |-> k.force_refresh,
     t0 |-> k.t0, requests |-> k.requests, hit |-> k.hit, ret |-> k.ret]

(***************************************************************************)
(* Specification SpecCache: the cache service driven directly              *)
(***************************************************************************)
TestKeys == {POSITIONS_KEY, ACCOUNT_KEY, PRICES_KEY}
TestData == {[v |-> 1], [v |-> 2]}
TestMaxAges == {NoMaxAge, 0, 60}

EmptyDict == [k \in {} |-> None]

NoRes == [op |-> "none", key |-> "", max_age |-> NoMaxAge, ret |-> None]

\* no direct API call is under way
NoRaw == [kind |-> "none"]
NoOut == [op |-> "none"]

InitCache ==
    /\ now = 0
    /\ cache = EmptyDict
    /\ res = NoRes
    /\ raw = NoRaw
    /\ out = NoOut
    /\ pc = [c \in Callers |-> "idle"]
    /\ call = [c \in Callers |-> NoCall]
    /\ ncalls = 0

Tick ==
    /\ now + TickStep <= MaxTime
    /\ now' = now + TickStep
    /\ UNCHANGED <<cache, res, normVars, orchVars>>

CacheGet(key, max_age) ==
    /\ res' = [op |-> "get", key |-> key, max_age |-> max_age,
               ret |-> get_ret(cache, key, max_age, now)]
    /\ cache' = get_cache(cache, key, max_age, now)
    /\ UNCHANGED <<now, normVars, orchVars>>

CacheSet(key, data) ==
    /\ cache' = set_cache(cache, key, data, now)
    /\ res' = [op |-> "set", key |-> key, max_age |-> NoMaxAge, ret |-> None]
    /\ UNCHANGED <<now, normVars, orchVars>>

CacheCleanup(max_age) ==
    /\ res' = [op |-> "cleanup", key |-> "", max_age |-> max_age,
               ret |-> [count |-> cleanup_ret(cache, max_age, now)]]
    /\ cache' = cleanup_cache(cache, max_age, now)
    /\ UNCHANGED <<now, normVars, orchVars>>

NextCache ==
    \/ Tick
    \/ \E key \in TestKeys, max_age \in TestMaxAges : CacheGet(key, max_age)
    \/ \E key \in TestKeys, data \in TestData : CacheSet(key, data)
    \/ \E max_age \in TestMaxAges : CacheCleanup(max_age)

SpecCache == InitCache /\ [][NextCache]_vars

(***************************************************************************)
(* Specification SpecNorm: HyperliquidAPIService called directly on raw    *)
(* responses drawn from bounded sets                                       *)
(***************************************************************************)
MaxItems == 2
MaxLimit == 2

PosItem(position, coin, szi, entryPx, leverage) ==
    [position |-> position, coin |-> coin, szi |-> szi, entryPx |-> entryPx,
     leverage |-> leverage, liquidationPx |-> Num(1500),
     unrealizedPnl |-> Num(-120), marginUsed |-> Num(900)]

RawPositionItems ==
    {PosItem("obj", "ETH", szi, Num(1800), Dict(5)) :
        szi \in {Num(-2), Num(0), Num(3), Bad, Null, Absent, Dict(1)}}
    \cup {PosItem("obj", "BTC", Num(1), entryPx, Num(3)) :
        entryPx \in {Bad, Null, Dict(1)}}
    \cup {PosItem("obj", "SOL", Num(-1), Num(20), Null),
          PosItem("null", "ETH", Num(1), Num(1800), Dict(5)),
          PosItem("absent", "ETH", Num(1), Num(1800), Dict(5))}

FillItem(sz, side, time) ==
    [coin |-> "ETH", side |-> side, sz |-> sz, px |-> Num(2000), time |-> time,
     fee |-> Num(1), closedPnl |-> Num(5)]

RawFillItems ==
    {FillItem(Num(1), "A", Num(1000)), FillItem(Num(2), "B", Num(2000)),
     FillItem(Num(3), "X", Absent), FillItem(Bad, "A", Num(1000)),
     FillItem(Null, "B", Num(2000)), FillItem(Absent, "A", Num(3000)),
     FillItem(Num(1), "A", Null)}

OrderItem(sz, size, limitPx, orderType, side) ==
    [coin |-> "ETH", symbol |-> "", sz |-> sz, size |-> size, limitPx |-> limitPx,
     px |-> Absent, price |-> Absent, orderType |-> orderType, type |-> Absent,
     side |-> side]

RawOrderItems ==
    {OrderItem(Num(1), Absent, Num(100), Str("Limit"), "A"),
     OrderItem(Absent, Num(2), Num(50), Absent, "B"),
     OrderItem(Bad, Absent, Num(100), Str("stop"), "A"),
     OrderItem(Null, Num(2), Num(100), Str("market"), "X"),
     OrderItem(Num(1), Absent, Num(100), Null, "B"),
     OrderItem(Num(1), Absent, Bad, Str("trigger"), "")}

\* the sequences over S of length at most n
SeqsUpTo(S, n) == UNION {[1..k -> S] : k \in 0..n}

FailedResponse == [status |-> "fail", items |-> <<>>]
OkResponse(items) == [status |-> "ok", items |-> items]

FailedPrices == [status |-> "fail", mids |-> [s \in {} |-> Null]]

PriceResponses ==
    {FailedPrices,
     [status |-> "ok",
      mids |-> ("ETH" :> Num(2000)) @@ ("BTC" :> Num(30000)) @@ ("@1" :> Num(5))],
     [status |-> "ok",
      mids |-> ("ETH" :> Num(0)) @@ ("BTC" :> Bad)]}

RawInputs ==
    {[kind |-> "positions", resp |-> r, presp |-> p] :
        r \in {FailedResponse} \cup {OkResponse(xs) : xs \in SeqsUpTo(RawPositionItems, MaxItems)},
        p \in PriceResponses}
    \cup {[kind |-> "fills", resp |-> r, presp |-> FailedPrices] :
        r \in {FailedResponse} \cup {OkResponse(xs) : xs \in SeqsUpTo(RawFillItems, MaxItems)}}
    \cup {[kind |-> "orders", resp |-> r, presp |-> FailedPrices] :
        r \in {FailedResponse} \cup {OkResponse(xs) : xs \in SeqsUpTo(RawOrderItems, MaxItems)}}

InitNorm ==
    /\ now = 0
    /\ cache = EmptyDict
    /\ res = NoRes
    /\ raw \in RawInputs
    /\ out = NoOut
    /\ pc = [c \in Callers |-> "idle"]
    /\ call = [c \in Callers |-> NoCall]
    /\ ncalls = 0

NormGetPositions ==
    /\ raw.kind = "positions"
    /\ out' = [op |-> "get_positions", limit |-> 0,
               r |-> get_positions(raw.resp, raw.presp)]
    /\ UNCHANGED <<cacheVars, raw, orchVars>>

NormGetUserFills(limit) ==
    /\ raw.kind = "fills"
    /\ out' = [op |-> "get_user_fills", limit |-> limit,
               r |-> get_user_fills(raw.resp, limit)]
    /\ UNCHANGED <<cacheVars, raw, orchVars>>

NormGetOpenOrders(limit) ==
    /\ raw.kind = "orders"
    /\ out' = [op |-> "get_open_orders", limit |-> limit,
               r |-> get_open_orders(raw.resp, limit)]
    /\ UNCHANGED <<cacheVars, raw, orchVars>>

NextNorm ==
    \/ NormGetPositions
    \/ \E limit \in 1..MaxLimit : NormGetUserFills(limit)
    \/ \E limit \in 1..MaxLimit : NormGetOpenOrders(limit)

SpecNorm == InitNorm /\ [][NextNorm]_vars

(***************************************************************************)
(* Specification Spec: PositionService called by the scheduler and the     *)
(* command handlers, each cache operation and each remote request a step   *)
(***************************************************************************)
MaxCalls == 3
MaxSeqCalls == 2
MaxWaits == 4

NoMargin ==
    [present |-> FALSE, accountValue |-> Absent, totalNtlPos |-> Absent,
     totalRawUsd |-> Absent, totalMarginUsed |-> Absent]

SomeMargin ==
    [present |-> TRUE, accountValue |-> Num(10000), totalNtlPos |-> Num(15000),
     totalRawUsd |-> Num(5000), totalMarginUsed |-> Num(2500)]

\* answers to a clearinghouseState request
StateResponses ==
    {[status |-> "fail", items |-> <<>>, margin |-> NoMargin],
     [status |-> "ok", items |-> <<PosItem("obj", "ETH", Num(-2), Num(1800), Dict(5))>>,
      margin |-> SomeMargin]}

\* the account without open positions
NoneOpen == [status |-> "ok", items |-> <<>>, margin |-> SomeMargin]

\* the answers to a clearinghouseState request; where the position monitor
\* runs (its record is the state of `out`) the account may also be without
\* open positions
ClearinghouseAnswers ==
    IF "update_count" \in DOMAIN out
    THEN StateResponses \cup {NoneOpen}
    ELSE StateResponses

\* answers to an allMids request
MidsResponses ==
    {FailedPrices,
     [status |-> "ok", mids |-> ("ETH" :> Num(2000)) @@ ("BTC" :> Num(30000))]}

\* answers to a userFills request
FillsResponses ==
    {FailedResponse,
     OkResponse(<<FillItem(Num(1), "A", Num(1000)), FillItem(Num(2), "B", Num(2000))>>)}

\* answers to an openOrders request
OrdersResponses ==
    {FailedResponse,
     OkResponse(<<OrderItem(Num(1), Absent, Num(100), Str("Limit"), "A"),
                  OrderItem(Absent, Num(2), Num(50), Absent, "B")>>)}

Init ==
    /\ now = 0
    /\ cache = EmptyDict
    /\ res = NoRes
    /\ raw = NoRaw
    /\ out = NoOut
    /\ pc = [c \in Callers |-> "idle"]
    /\ call = [c \in Callers |-> NoCall]
    /\ ncalls = 0

\* mutant: force_refresh is not looked at
consults_cache_unforced(use_cache, force_refresh) == use_cache

\* lines 32, 67, 113, 140: if use_cache and not force_refresh
consults_cache(use_cache, force_refresh) == use_cache /\ ~force_refresh

\* a caller enters a PositionService method; with track, the start time
\* and the caller's previous call are remembered for the claims about
\* consecutive calls
Enter(c, op, use_cache, force_refresh, limit, symbols, first, track) ==
    /\ pc[c] = "idle"
    /\ ncalls' = ncalls + 1
    /\ call' = [call EXCEPT ![c] =
            [NoCall EXCEPT !.id = ncalls + 1, !.op = op, !.use_cache = use_cache,
                           !.force_refresh = force_refresh, !.limit = limit,
                           !.symbols = symbols,
                           !.t0 = IF track THEN now ELSE 0,
                           !.prev = IF track /\ call[c].op # "none"
                                    THEN Summary(call[c]) ELSE None]]
    /\ pc' = [pc EXCEPT ![c] =
            IF consults_cache(use_cache, force_refresh) THEN first ELSE "fetch"]
    /\ UNCHANGED <<cacheVars, normVars>>

\* the call of caller c returns ret
Return(c, k, ret) ==
    /\ call' = [call EXCEPT ![c] = [k EXCEPT !.returned = TRUE, !.ret = ret]]
    /\ pc' = [pc EXCEPT ![c] = "idle"]

\* the call of caller c goes on at label
Goto(c, k, label) ==
    /\ call' = [call EXCEPT ![c] = k]
    /\ pc' = [pc EXCEPT ![c] = label]

Pair(positions, account_summary) ==
    [positions |-> positions, account |-> account_summary]

\* get_positions_and_account(use_cache, force_refresh), line 24
CallGetPositionsAndAccount(c, use_cache, force_refresh, track) ==
    Enter(c, "get_positions_and_account", use_cache, force_refresh, 0, NoSymbols,
          "check_positions", track)

\* line 33: cached_positions = self.cache_service.get_positions()
GpaCheckPositions(c) ==
    /\ pc[c] = "check_positions"
    /\ call[c].op = "get_positions_and_account"
    /\ cache' = get_cache(cache, POSITIONS_KEY, NoMaxAge, now)
    /\ Goto(c, [call[c] EXCEPT
                    !.cached_positions = get_ret(cache, POSITIONS_KEY, NoMaxAge, now),
                    !.fresh_positions = Fresh(cache, POSITIONS_KEY, NoMaxAge, now)],
            "check_account")
    /\ UNCHANGED <<now, res, normVars, ncalls>>

\* mutant: a cached positions list alone counts as a hit
gpa_is_hit_either(cached_positions, cached_account) ==
    cached_positions # None

\* line 36: if cached_positions is not None and cached_account is not None
gpa_is_hit(cached_positions, cached_account) ==
    cached_positions # None /\ cached_account # None

\* lines 34-38: cached_account = self.cache_service.get_account_summary(),
\* and the return of the cached pair
GpaCheckAccount(c) ==
    /\ pc[c] = "check_account"
    /\ cache' = get_cache(cache, ACCOUNT_KEY, NoMaxAge, now)
    /\ LET cached_account == get_ret(cache, ACCOUNT_KEY, NoMaxAge, now)
           k == [call[c] EXCEPT
                    !.cached_account = cached_account,
                    !.fresh_account = Fresh(cache, ACCOUNT_KEY, NoMaxAge, now)]
       IN  IF gpa_is_hit(call[c].cached_positions, cached_account)
           THEN Return(c, [k EXCEPT !.hit = TRUE],
                       Pair(call[c].cached_positions, cached_account))
           ELSE Goto(c, k, "fetch")
    /\ UNCHANGED <<now, res, normVars, ncalls>>

\* a payload built by call k; failed tells that the request behind it
\* failed at the transport layer
PositionsPayload(k, list, failed) ==
    [cycle |-> k.id, list |-> list, failed |-> failed, unpriced |-> FALSE]

AccountPayload(k, summary) == [cycle |-> k.id, summary |-> summary]

\* the call ends with an exception that no handler of the service catches
Raised(exc) == [raised |-> exc]

\* line 43, first half: api_service.get_positions() up to its own line 111,
\* the clearinghouseState request and the normalization of its answer
GpaFetchPositions(c) ==
    /\ pc[c] = "fetch"
    /\ call[c].op = "get_positions_and_account"
    /\ \E resp \in ClearinghouseAnswers :
        LET n == normalize_positions(resp)
            k == [call[c] EXCEPT
                    !.requests = Append(@, "clearinghouseState"),
                    !.positions = PositionsPayload(call[c], n.active, resp.status # "ok")]
        IN  IF n.exc # "none" THEN Return(c, k, Raised(n.exc))
            ELSE IF n.active # <<>> THEN Goto(c, k, "fetch_prices")
            ELSE Goto(c, k, "fetch_account")
    /\ UNCHANGED <<cacheVars, normVars, ncalls>>

\* line 43, second half: api_service.get_positions() lines 113-124, the
\* allMids request and the hydration of the active positions
GpaFetchPrices(c) ==
    /\ pc[c] = "fetch_prices"
    /\ \E presp \in MidsResponses :
        Goto(c, [call[c] EXCEPT
                    !.requests = Append(@, "allMids"),
                    !.positions.list = hydrate(@, get_mark_prices(presp)),
                    !.positions.unpriced = (presp.status # "ok")],
             "fetch_account")
    /\ UNCHANGED <<cacheVars, normVars, ncalls>>

\* line 46: if positions is None or account_summary is None
gpa_failed(positions, account_summary) ==
    positions = None \/ account_summary = None

\* lines 44-56 without the cache writes: api_service.get_account_summary(),
\* the failure test and, when nothing is to be cached, the return
GpaFetchAccount(c) ==
    /\ pc[c] = "fetch_account"
    /\ \E resp \in ClearinghouseAnswers :
        LET r == get_account_summary(resp)
            account_summary == IF r.exc # "none" \/ r.v = None THEN None
                               ELSE AccountPayload(call[c], r.v)
            k == [call[c] EXCEPT
                    !.requests = Append(@, "clearinghouseState"),
                    !.account_summary = account_summary]
        IN  IF r.exc # "none" THEN Return(c, k, Raised(r.exc))
            ELSE IF gpa_failed(call[c].positions, account_summary)
                 THEN Return(c, k, Pair(None, None))
            ELSE IF call[c].use_cache THEN Goto(c, k, "store")
            ELSE Return(c, k, Pair(call[c].positions, account_summary))
    /\ UNCHANGED <<cacheVars, normVars, ncalls>>

\* line 52: self.cache_service.cache_positions(positions)
GpaStorePositions(c) ==
    /\ pc[c] = "store"
    /\ call[c].op = "get_positions_and_account"
    /\ cache' = set_cache(cache, POSITIONS_KEY, call[c].positions, now)
    /\ Goto(c, call[c], "store_account")
    /\ UNCHANGED <<now, res, normVars, ncalls>>

\* lines 53-56: self.cache_service.cache_account_summary(account_summary)
\* and the return of the fresh pair
GpaStoreAccount(c) ==
    /\ pc[c] = "store_account"
    /\ cache' = set_cache(cache, ACCOUNT_KEY, call[c].account_summary, now)
    /\ Return(c, call[c], Pair(call[c].positions, call[c].account_summary))
    /\ UNCHANGED <<now, res, normVars, ncalls>>

Range(f) == {f[i] : i \in DOMAIN f}

\* lines 73-79 and 94-100: the PriceCollection cut down to the requested
\* symbols that have a price; all of it when no symbols are given
filter_prices(payload, symbols) ==
    IF symbols = NoSymbols THEN payload
    ELSE [payload EXCEPT !.prices =
            [x \in (DOMAIN payload.prices) \cap Range(symbols) |-> payload.prices[x]]]

\* cached_fills[:limit], cached_orders[:limit]
limit_items(payload, limit) == [payload EXCEPT !.items = Take(@, limit)]

PricesPayload(k, prices, failed) ==
    [cycle |-> k.id, prices |-> prices, failed |-> failed]

ItemsPayload(k, items, failed) ==
    [cycle |-> k.id, items |-> items, failed |-> failed]

\* get_prices(symbols, use_cache, force_refresh), line 58
CallGetPrices(c, symbols, use_cache, force_refresh) ==
    Enter(c, "get_prices", use_cache, force_refresh, 0, symbols, "check", TRUE)

\* lines 67-81: the cache lookup and the return of the cached prices
PricesCheck(c) ==
    /\ pc[c] = "check"
    /\ call[c].op = "get_prices"
    /\ cache' = get_cache(cache, PRICES_KEY, NoMaxAge, now)
    /\ LET cached_prices == get_ret(cache, PRICES_KEY, NoMaxAge, now)
           k == [call[c] EXCEPT !.cached = cached_prices]
       IN  IF cached_prices # None
           THEN Return(c, [k EXCEPT !.hit = TRUE],
                       filter_prices(cached_prices, call[c].symbols))
           ELSE Goto(c, k, "fetch")
    /\ UNCHANGED <<now, res, normVars, ncalls>>

\* lines 86-102 without the cache write: api_service.get_mark_prices()
PricesFetch(c) ==
    /\ pc[c] = "fetch"
    /\ call[c].op = "get_prices"
    /\ \E presp \in MidsResponses :
        LET k == [call[c] EXCEPT
                    !.requests = Append(@, "allMids"),
                    !.data = PricesPayload(call[c], get_mark_prices(presp),
                                           presp.status # "ok")]
        IN  IF call[c].use_cache THEN Goto(c, k, "store")
            ELSE Return(c, k, filter_prices(k.data, call[c].symbols))
    /\ UNCHANGED <<cacheVars, normVars, ncalls>>

\* lines 89-102: self.cache_service.cache_prices(price_collection)
PricesStore(c) ==
    /\ pc[c] = "store"
    /\ call[c].op = "get_prices"
    /\ cache' = set_cache(cache, PRICES_KEY, call[c].data, now)
    /\ Return(c, call[c], filter_prices(call[c].data, call[c].symbols))
    /\ UNCHANGED <<now, res, normVars, ncalls>>

\* get_user_fills(limit, use_cache, force_refresh), line 104
CallGetUserFills(c, limit, use_cache, force_refresh) ==
    Enter(c, "get_user_fills", use_cache, force_refresh, limit, NoSymbols, "check",
          TRUE)

\* lines 113-117: the cache lookup and the return of cached_fills[:limit]
FillsCheck(c) ==
    /\ pc[c] = "check"
    /\ call[c].op = "get_user_fills"
    /\ cache' = get_cache(cache, FILLS_KEY, NoMaxAge, now)
    /\ LET cached_fills == get_ret(cache, FILLS_KEY, NoMaxAge, now)
           k == [call[c] EXCEPT !.cached = cached_fills]
       IN  IF cached_fills # None
           THEN Return(c, [k EXCEPT !.hit = TRUE],
                       limit_items(cached_fills, call[c].limit))
           ELSE Goto(c, k, "fetch")
    /\ UNCHANGED <<now, res, normVars, ncalls>>

\* lines 122-129 without the cache write: api_service.get_user_fills(limit)
FillsFetch(c) ==
    /\ pc[c] = "fetch"
    /\ call[c].op = "get_user_fills"
    /\ \E resp \in FillsResponses :
        LET r == get_user_fills(resp, call[c].limit)
            k == [call[c] EXCEPT
                    !.requests = Append(@, "userFills"),
                    !.data = ItemsPayload(call[c], r.items, resp.status # "ok")]
        IN  IF r.exc # "none" THEN Return(c, k, Raised(r.exc))
            ELSE IF call[c].use_cache THEN Goto(c, k, "store")
            ELSE Return(c, k, k.data)
    /\ UNCHANGED <<cacheVars, normVars, ncalls>>

\* lines 125-129: self.cache_service.cache_fills(fills)
FillsStore(c) ==
    /\ pc[c] = "store"
    /\ call[c].op = "get_user_fills"
    /\ cache' = set_cache(cache, FILLS_KEY, call[c].data, now)
    /\ Return(c, call[c], call[c].data)
    /\ UNCHANGED <<now, res, normVars, ncalls>>

\* get_open_orders(limit, use_cache, force_refresh), line 131
CallGetOpenOrders(c, limit, use_cache, force_refresh) ==
    Enter(c, "get_open_orders", use_cache, force_refresh, limit, NoSymbols, "check",
          TRUE)

\* lines 140-144: the cache lookup and the return of cached_orders[:limit]
OrdersCheck(c) ==
    /\ pc[c] = "check"
    /\ call[c].op = "get_open_orders"
    /\ cache' = get_cache(cache, ORDERS_KEY, NoMaxAge, now)
    /\ LET cached_orders == get_ret(cache, ORDERS_KEY, NoMaxAge, now)
           k == [call[c] EXCEPT !.cached = cached_orders]
       IN  IF cached_orders # None
           THEN Return(c, [k EXCEPT !.hit = TRUE],
                       limit_items(cached_orders, call[c].limit))
           ELSE Goto(c, k, "fetch")
    /\ UNCHANGED <<now, res, normVars, ncalls>>

\* lines 149-156 without the cache write: api_service.get_open_orders(limit)
OrdersFetch(c) ==
    /\ pc[c] = "fetch"
    /\ call[c].op = "get_open_orders"
    /\ \E resp \in OrdersResponses :
        LET r == get_open_orders(resp, call[c].limit)
            k == [call[c] EXCEPT
                    !.requests = Append(@, "openOrders"),
                    !.data = ItemsPayload(call[c], r.items, resp.status # "ok")]
        IN  IF r.exc # "none" THEN Return(c, k, Raised(r.exc))
            ELSE IF call[c].use_cache THEN Goto(c, k, "store")
            ELSE Return(c, k, k.data)
    /\ UNCHANGED <<cacheVars, normVars, ncalls>>

\* lines 152-156: self.cache_service.cache_orders(orders)
OrdersStore(c) ==
    /\ pc[c] = "store"
    /\ call[c].op = "get_open_orders"
    /\ cache' = set_cache(cache, ORDERS_KEY, call[c].data, now)
    /\ Return(c, call[c], call[c].data)
    /\ UNCHANGED <<now, res, normVars, ncalls>>

\* time passes while the callers run
Wait ==
    /\ now + TickStep <= MaxWaits * TickStep
    /\ now' = now + TickStep
    /\ UNCHANGED <<cache, res, normVars, orchVars>>

\* the steps of get_positions_and_account for caller c
GpaStep(c) ==
    \/ GpaCheckPositions(c)
    \/ GpaCheckAccount(c)
    \/ GpaFetchPositions(c)
    \/ GpaFetchPrices(c)
    \/ GpaFetchAccount(c)
    \/ GpaStorePositions(c)
    \/ GpaStoreAccount(c)

\* the scheduler and the command handlers call
\* get_positions_and_account(use_cache=True) concurrently
Next ==
    \/ Wait
    \/ \E c \in Callers, force_refresh \in BOOLEAN :
        ncalls < MaxCalls /\ CallGetPositionsAndAccount(c, TRUE, force_refresh, FALSE)
    \/ \E c \in Callers : GpaStep(c)

Spec == Init /\ [][Next]_vars

\* the command handlers alone: the calls of the four fetch methods follow
\* one another
NextSeq ==
    \/ Wait
    \/ \E use_cache \in BOOLEAN, force_refresh \in BOOLEAN :
        ncalls < MaxSeqCalls
        /\ CallGetPositionsAndAccount("command", use_cache, force_refresh, TRUE)
    \/ GpaStep("command")
    \/ \E symbols \in {NoSymbols, price_symbols}, use_cache \in BOOLEAN,
          force_refresh \in BOOLEAN :
        ncalls < MaxSeqCalls
        /\ CallGetPrices("command", symbols, use_cache, force_refresh)
    \/ PricesCheck("command")
    \/ PricesFetch("command")
    \/ PricesStore("command")
    \/ \E limit \in 1..MaxLimit, use_cache \in BOOLEAN, force_refresh \in BOOLEAN :
        ncalls < MaxSeqCalls
        /\ CallGetUserFills("command", limit, use_cache, force_refresh)
    \/ FillsCheck("command")
    \/ FillsFetch("command")
    \/ FillsStore("command")
    \/ \E limit \in 1..MaxLimit, use_cache \in BOOLEAN, force_refresh \in BOOLEAN :
        ncalls < MaxSeqCalls
        /\ CallGetOpenOrders("command", limit, use_cache, force_refresh)
    \/ OrdersCheck("command")
    \/ OrdersFetch("command")
    \/ OrdersStore("command")

SpecSeq == Init /\ [][NextSeq]_vars

(***************************************************************************)
(* Specification SpecApp: the application of src/src/main.py, where the    *)
(* position monitor and the bot are tasks of one event loop, so that a     *)
(* PositionService call of one runs to its end before the other's begins   *)
(***************************************************************************)
MaxAppCalls == 3

\* no PositionService call is under way
AppIdle == \A c \in Callers : pc[c] = "idle"

\* PositionMonitor._monitor_cycle, lines 68-71
MonitorCycleFetch ==
    /\ AppIdle
    /\ ncalls < MaxAppCalls
    /\ CallGetPositionsAndAccount("scheduler", FALSE, TRUE, TRUE)

\* TelegramBot._handle_position, lines 167-170
HandlePosition ==
    /\ AppIdle
    /\ ncalls < MaxAppCalls
    /\ CallGetPositionsAndAccount("command", TRUE, FALSE, TRUE)

NextApp ==
    \/ Wait
    \/ MonitorCycleFetch
    \/ HandlePosition
    \/ \E c \in Callers : GpaStep(c)

SpecApp == Init /\ [][NextApp]_vars

(***************************************************************************)
(* Specification SpecLock: CacheService called from the scheduler and the  *)
(* command-handling thread, each statement inside `with self._lock` a step *)
(***************************************************************************)
MaxLockOps == 3

LockKeys == {POSITIONS_KEY, ACCOUNT_KEY}
LockMaxAges == {NoMaxAge, 0}

\* the arguments and locals of a CacheService call; seen is the cache at
\* the moment the lock was taken, t the time the call read the clock,
\* after the cache at the moment the lock was given back
LockCall(op, key, max_age, data) ==
    [op |-> op, key |-> key, max_age |-> max_age, data |-> data,
     entry |-> None, expired |-> {}, count |-> 0,
     seen |-> EmptyDict, t |-> 0, after |-> EmptyDict,
     done |-> FALSE, ret |-> None]

\* the statements inside the with blocks of get, set and cleanup_expired
Critical ==
    {"get_lookup", "get_expired", "get_delete", "set_write",
     "cleanup_scan", "cleanup_delete"}

holds_lock(c) == pc[c] \in Critical

\* mutant: the with statement takes no lock
lock_free_always(c) == TRUE

\* with self._lock: no other thread is inside a with block
lock_free(c) == \A d \in Callers \ {c} : ~holds_lock(d)

\* a thread calls get, set or cleanup_expired
LockBegin(c, op, key, max_age, data) ==
    /\ pc[c] = "idle"
    /\ ncalls' = ncalls + 1
    /\ call' = [call EXCEPT ![c] = LockCall(op, key, max_age, data)]
    /\ pc' = [pc EXCEPT ![c] = "acquire"]
    /\ UNCHANGED <<cacheVars, normVars>>

\* lines 44, 61, 91: with self._lock
LockAcquire(c) ==
    /\ pc[c] = "acquire"
    /\ lock_free(c)
    /\ call' = [call EXCEPT ![c].seen = cache]
    /\ pc' = [pc EXCEPT ![c] =
            CASE call[c].op = "get" -> "get_lookup"
              [] call[c].op = "set" -> "set_write"
              [] OTHER -> "cleanup_scan"]
    /\ UNCHANGED <<cacheVars, normVars, ncalls>>

\* the call of thread c leaves its with block and returns ret
LockFinish(c, k, ret) ==
    /\ call' = [call EXCEPT ![c] = [k EXCEPT !.done = TRUE, !.ret = ret,
                                             !.after = cache']]
    /\ pc' = [pc EXCEPT ![c] = "idle"]

\* lines 45-49: entry = self._cache.get(key); if entry is None: return None
LockGetLookup(c) ==
    /\ pc[c] = "get_lookup"
    /\ cache' = cache
    /\ IF call[c].key \in DOMAIN cache
       THEN Goto(c, [call[c] EXCEPT !.entry = cache[call[c].key]], "get_expired")
       ELSE LockFinish(c, call[c], None)
    /\ UNCHANGED <<now, res, normVars, ncalls>>

\* lines 51, 56-57: if entry.is_expired(max_age) ... return entry.data
LockGetExpired(c) ==
    /\ pc[c] = "get_expired"
    /\ cache' = cache
    /\ LET k == [call[c] EXCEPT !.t = now]
       IN  IF is_expired(k.entry, EffectiveMaxAge(k.max_age), now)
           THEN Goto(c, k, "get_delete")
           ELSE LockFinish(c, k, k.entry.data)
    /\ UNCHANGED <<now, res, normVars, ncalls>>

\* lines 53-54: del self._cache[key]; return None
LockGetDelete(c) ==
    /\ pc[c] = "get_delete"
    /\ IF call[c].key \in DOMAIN cache
       THEN /\ cache' = DictDel(cache, call[c].key)
            /\ LockFinish(c, call[c], None)
       ELSE /\ cache' = cache
            /\ LockFinish(c, call[c], Raised("KeyError"))
    /\ UNCHANGED <<now, res, normVars, ncalls>>

\* line 62: self._cache[key] = CacheEntry(data=data, timestamp=time.time())
LockSetWrite(c) ==
    /\ pc[c] = "set_write"
    /\ cache' = set_cache(cache, call[c].key, call[c].data, now)
    /\ LockFinish(c, [call[c] EXCEPT !.t = now], None)
    /\ UNCHANGED <<now, res, normVars, ncalls>>

\* lines 92-95: expired_keys = [key for key, entry in self._cache.items() ...]
LockCleanupScan(c) ==
    /\ pc[c] = "cleanup_scan"
    /\ cache' = cache
    /\ LET found == expired_keys(cache, call[c].max_age, now)
           k == [call[c] EXCEPT !.t = now, !.expired = found,
                                !.count = Cardinality(found)]
       IN  IF found = {} THEN LockFinish(c, k, [count |-> 0])
           ELSE Goto(c, k, "cleanup_delete")
    /\ UNCHANGED <<now, res, normVars, ncalls>>

\* lines 97-103: for key in expired_keys: del self._cache[key], and the
\* return of len(expired_keys) after the last one
LockCleanupDelete(c) ==
    /\ pc[c] = "cleanup_delete"
    /\ \E key \in call[c].expired :
        LET k == [call[c] EXCEPT !.expired = @ \ {key}]
        IN  IF key \notin DOMAIN cache
            THEN cache' = cache /\ LockFinish(c, k, Raised("KeyError"))
            ELSE /\ cache' = DictDel(cache, key)
                 /\ IF k.expired = {} THEN LockFinish(c, k, [count |-> k.count])
                    ELSE Goto(c, k, "cleanup_delete")
    /\ UNCHANGED <<now, res, normVars, ncalls>>

LockStep(c) ==
    \/ LockAcquire(c)
    \/ LockGetLookup(c)
    \/ LockGetExpired(c)
    \/ LockGetDelete(c)
    \/ LockSetWrite(c)
    \/ LockCleanupScan(c)
    \/ LockCleanupDelete(c)

NextLock ==
    \/ Wait
    \/ \E c \in Callers, key \in LockKeys, max_age \in LockMaxAges :
        ncalls < MaxLockOps /\ LockBegin(c, "get", key, max_age, None)
    \/ \E c \in Callers, key \in LockKeys, data \in TestData :
        ncalls < MaxLockOps /\ LockBegin(c, "set", key, NoMaxAge, data)
    \/ \E c \in Callers, max_age \in LockMaxAges :
        ncalls < MaxLockOps /\ LockBegin(c, "cleanup", "", max_age, None)
    \/ \E c \in Callers : LockStep(c)

SpecLock == Init /\ [][NextLock]_vars

(***************************************************************************)
(* Specification SpecLoop: main_loop of the unified monitor                *)
(* (src/unified_monitor.py) and of the standalone monitor                  *)
(* (src/send_positions.py), run by the scheduler; a remote request is a    *)
(* step whose answer is chosen freely, time.sleep a step that moves the    *)
(* clock                                                                   *)
(***************************************************************************)
MaxIterations == 3
MaxLoopTicks == 2

\* REFRESH_INTERVAL_SECONDS, and the delay before the attempt after a
\* failed one
refresh_interval == 300
retry_delay == 60

Variants == {"unified", "standalone"}

\* what a fetch or a send came to
Outcomes == {"ok", "failed"}

\* the locals of main_loop and of the cycle it is running; ended,
\* prev_success, prev_fault and prev_sent tell of the cycle before, inflight
\* that a request has been sent and its answer is awaited
LoopLocals(variant, run_once) ==
    [variant |-> variant, run_once |-> run_once, iteration |-> 0,
     positions |-> "none", account_data |-> "none", sent |-> "none",
     success |-> FALSE, requests |-> <<>>, started |-> 0, ticks |-> 0,
     ended |-> 0, prev_success |-> FALSE, prev_fault |-> FALSE,
     prev_sent |-> "none", inflight |-> FALSE]

InitLoop ==
    /\ now = 0
    /\ cache = EmptyDict
    /\ res = NoRes
    /\ raw = NoRaw
    /\ out = NoOut
    /\ ncalls = 0
    /\ pc = [c \in Callers |-> IF c = "scheduler" THEN "loop_top" ELSE "idle"]
    /\ \E variant \in Variants, run_once \in BOOLEAN :
        call = [c \in Callers |->
                    IF c = "scheduler" THEN LoopLocals(variant, run_once) ELSE NoCall]

\* the scheduler goes on at label with locals k
LoopGoto(k, label) ==
    /\ call' = [call EXCEPT !["scheduler"] = k]
    /\ pc' = [pc EXCEPT !["scheduler"] = label]

\* lines 780-785 (431-436): while True: iteration += 1 ... run the cycle
LoopTop ==
    /\ pc["scheduler"] = "loop_top"
    /\ call["scheduler"].iteration < MaxIterations
    /\ LoopGoto([call["scheduler"] EXCEPT
                    !.iteration = @ + 1, !.started = now, !.ticks = 0,
                    !.positions = "none", !.account_data = "none",
                    !.sent = "none", !.success = FALSE, !.requests = <<>>],
                "fetch_positions")
    /\ UNCHANGED <<cacheVars, normVars, ncalls>>

\* fetch_positions up to the mark prices: one clearinghouseState request;
\* any failure makes it return None
LoopFetchPositions ==
    /\ pc["scheduler"] = "fetch_positions"
    /\ \E r \in {"failed", "empty", "some"} :
        LoopGoto([call["scheduler"] EXCEPT
                    !.requests = Append(@, "positions"), !.positions = r,
                    !.inflight = FALSE],
                 IF r = "some" THEN "fetch_marks" ELSE "fetch_account")
    /\ UNCHANGED <<cacheVars, normVars, ncalls>>

\* the mark prices of the open positions: one allMids request, which the
\* unified monitor saves when its own cache is still valid; a failure
\* leaves the positions without mark price
LoopFetchMarks ==
    /\ pc["scheduler"] = "fetch_marks"
    /\ \E cached \in BOOLEAN :
        /\ cached => call["scheduler"].variant = "unified" /\ ~call["scheduler"].inflight
        /\ LoopGoto([call["scheduler"] EXCEPT
                        !.requests = IF cached THEN @ ELSE Append(@, "allMids"),
                        !.inflight = FALSE],
                    "fetch_account")
    /\ UNCHANGED <<cacheVars, normVars, ncalls>>

\* line 733 (396): if positions is None or account_data is None
cycle_failed(positions, account_data) ==
    positions = "failed" \/ account_data = "failed"

\* fetch_account_metrics, one clearinghouseState request, and the test of
\* the two results
LoopFetchAccount ==
    /\ pc["scheduler"] = "fetch_account"
    /\ \E r \in Outcomes :
        LET k == [call["scheduler"] EXCEPT
                    !.requests = Append(@, "account"), !.account_data = r,
                    !.inflight = FALSE]
        IN  IF cycle_failed(k.positions, r)
            THEN LoopGoto([k EXCEPT !.success = FALSE], "after_run")
            ELSE LoopGoto(k, "send")
    /\ UNCHANGED <<cacheVars, normVars, ncalls>>

\* lines 741-751 (404-412): success = self.send_message(message)
LoopSend ==
    /\ pc["scheduler"] = "send"
    /\ \E r \in Outcomes :
        LoopGoto([call["scheduler"] EXCEPT
                    !.requests = Append(@, "sendMessage"), !.sent = r,
                    !.inflight = FALSE,
                    !.success = (r = "ok")],
                 "after_run")
    /\ UNCHANGED <<cacheVars, normVars, ncalls>>

\* mutant: every cycle is followed by the refresh interval
loop_delay_refresh(success) == refresh_interval

\* lines 790-795 (441-446): the sleep after a cycle
loop_delay(success) == IF success THEN refresh_interval ELSE retry_delay

\* mutant: a failed cycle ends the loop
leaves_loop_on_failure(run_once, success) == run_once \/ ~success

\* lines 787-788 (438-439): if run_once: break
leaves_loop(run_once, success) == run_once

\* lines 787-795 (438-446): leave after one cycle when run_once, else sleep
LoopAfterRun ==
    /\ pc["scheduler"] = "after_run"
    /\ LET k == call["scheduler"]
       IN  IF leaves_loop(k.run_once, k.success)
           THEN now' = now /\ LoopGoto(k, "exited")
           ELSE /\ now' = now + loop_delay(k.success)
                /\ LoopGoto([k EXCEPT
                        !.ended = now, !.prev_success = k.success,
                        !.prev_sent = k.sent,
                        !.prev_fault = (k.positions = "failed"
                                        \/ k.account_data = "failed"
                                        \/ k.sent = "failed")],
                            "loop_top")
    /\ UNCHANGED <<cache, res, normVars, ncalls>>

\* a request of the cycle takes its time
LoopTick ==
    /\ pc["scheduler"] \in {"fetch_positions", "fetch_marks", "fetch_account", "send"}
    /\ call["scheduler"].ticks < MaxLoopTicks
    /\ now' = now + TickStep
    /\ LoopGoto([call["scheduler"] EXCEPT !.ticks = @ + 1, !.inflight = TRUE],
                pc["scheduler"])
    /\ UNCHANGED <<cache, res, normVars, ncalls>>

\* lines 797-802 (448-450): KeyboardInterrupt, the external shutdown, is
\* raised in the main thread wherever main_loop stands, inside
\* requests.post and time.sleep as well, and no except Exception on the
\* way catches it
LoopInterrupt ==
    /\ pc["scheduler"] \notin {"exited", "stopped"}
    /\ LoopGoto(call["scheduler"], "stopped")
    /\ UNCHANGED <<cacheVars, normVars, ncalls>>

\* the scheduler runs its loop
LoopRun ==
    \/ LoopTop
    \/ LoopFetchPositions
    \/ LoopFetchMarks
    \/ LoopFetchAccount
    \/ LoopSend
    \/ LoopAfterRun

NextLoop ==
    \/ LoopRun
    \/ LoopTick
    \/ LoopInterrupt

SpecLoop == InitLoop /\ [][NextLoop]_vars

\* every request ends, by an answer or by its timeout, and every sleep
\* ends: the loop takes its next step as long as it has one
FairLoop == SpecLoop /\ WF_vars(LoopRun)

(***************************************************************************)
(* Specification SpecPoll: the long-poll loop of the bot,                  *)
(* TelegramBot._poll_updates (src/src/bot/telegram_bot.py) and             *)
(* UnifiedHyperliquidMonitor.bot_loop (src/unified_monitor.py).  The       *)
(* server answers a poll with updates it has not been told to forget,      *)
(* those whose id is at least the offset, in any order; an update may lack *)
(* its update_id.                                                          *)
(***************************************************************************)
MaxUpdateId == 3
MaxBatch == 2
MaxPolls == 3

Bots == {"unified", "app"}

\* update.get('update_id', 0) of an update without update_id
NoUpdateId == 0

\* the answers to getUpdates(offset): no update twice, no id below offset
Batches(offset) ==
    {b \in SeqsUpTo({NoUpdateId} \cup (offset..MaxUpdateId), MaxBatch) :
        \A i, j \in 1..Len(b) : b[i] = b[j] => i = j}

\* the fields and locals of the bot; processed are the ids of the updates
\* handed to the handlers, again tells that one was handed over twice
PollLocals(bot) ==
    [bot |-> bot, last_update_id |-> 0, offset |-> 0, updates |-> <<>>,
     polls |-> 0, processed |-> {}, again |-> FALSE]

InitPoll ==
    /\ now = 0
    /\ cache = EmptyDict
    /\ res = NoRes
    /\ raw = NoRaw
    /\ out = NoOut
    /\ ncalls = 0
    /\ pc = [c \in Callers |-> IF c = "command" THEN "poll" ELSE "idle"]
    /\ \E bot \in Bots :
        call = [c \in Callers |-> IF c = "command" THEN PollLocals(bot) ELSE NoCall]

\* telegram_bot.py lines 67-70, unified_monitor.py lines 517-521 and 696:
\* updates = get_updates(offset=self.last_update_id + 1)
PollGetUpdates ==
    /\ pc["command"] = "poll"
    /\ call["command"].polls < MaxPolls
    /\ LET k == call["command"]
           offset == k.last_update_id + 1
       IN  \E b \in Batches(offset) :
            /\ call' = [call EXCEPT !["command"] =
                    [k EXCEPT !.offset = offset, !.updates = b, !.polls = @ + 1]]
            /\ pc' = [pc EXCEPT !["command"] = IF b = <<>> THEN "poll" ELSE "process"]
    /\ UNCHANGED <<cacheVars, normVars, ncalls>>

\* unified_monitor.py line 700:
\* self.last_update_id = max(self.last_update_id, update.get('update_id', 0))
cursor_after_unified(last_update_id, update_id) ==
    IF update_id > last_update_id THEN update_id ELSE last_update_id

\* telegram_bot.py line 73: self.last_update_id = update.get('update_id', 0)
cursor_after_app(last_update_id, update_id) == update_id

\* the body of `for update in updates`: the cursor moves and the update
\* goes to its handler
PollProcessUpdate ==
    /\ pc["command"] = "process"
    /\ LET k == call["command"]
           u == Head(k.updates)
           rest == Tail(k.updates)
       IN  /\ call' = [call EXCEPT !["command"] =
                [k EXCEPT
                    !.last_update_id =
                        IF k.bot = "unified" THEN cursor_after_unified(@, u)
                        ELSE cursor_after_app(@, u),
                    !.updates = rest,
                    !.processed = IF u = NoUpdateId THEN @ ELSE @ \cup {u},
                    !.again = @ \/ (u # NoUpdateId /\ u \in k.processed)]]
           /\ pc' = [pc EXCEPT !["command"] = IF rest = <<>> THEN "poll" ELSE "process"]
    /\ UNCHANGED <<cacheVars, normVars, ncalls>>

NextPoll ==
    \/ PollGetUpdates
    \/ PollProcessUpdate

SpecPoll == InitPoll /\ [][NextPoll]_vars

(***************************************************************************)
(* Arithmetic of the derived figures.  The amounts of a record are whole   *)
(* numbers; a quotient of two of them is the exact fraction n/d in lowest  *)
(* terms with d > 0, and a division by zero raises ZeroDivisionError.      *)
(***************************************************************************)
RECURSIVE Gcd(_, _)
Gcd(a, b) == IF b = 0 THEN a ELSE Gcd(b, a % b)

\* the fraction n/d (d # 0) in lowest terms
Frac(n, d) ==
    LET g == Gcd(Abs(n), Abs(d))
        s == IF d < 0 THEN -1 ELSE 1
    IN  [n |-> (s * n) \div g, d |-> (s * d) \div g]

\* Python a / b
truediv(a, b) == IF b = 0 THEN Raise("ZeroDivisionError") ELSE Ok(Frac(a, b))

\* Python q * k for a quotient q that may have raised
times(q, k) == IF q.exc # "none" THEN q ELSE Ok(Frac(q.v.n * k, q.v.d))

\* the float 0.0 and a whole amount as a float
ZeroFloat == Frac(0, 1)
Whole(x) == Frac(x, 1)

\* AccountSummary.cross_margin_ratio with the guard account_value != 0
cross_margin_ratio_nonzero(a) ==
    IF a.account_value # 0
    THEN times(truediv(a.total_margin_used, a.account_value), 100)
    ELSE Ok(ZeroFloat)
\* AccountSummary.cross_margin_ratio
cross_margin_ratio(a) ==
    IF a.account_value > 0
    THEN times(truediv(a.total_margin_used, a.account_value), 100)
    ELSE Ok(ZeroFloat)

\* AccountSummary.cross_leverage
cross_leverage(a) ==
    IF a.account_value > 0
    THEN truediv(a.total_ntl_pos, a.account_value)
    ELSE Ok(ZeroFloat)

\* AccountSummary.available_balance
available_balance(a) == Ok(Whole(a.account_value - a.total_margin_used))

\* AccountSummary.equity_utilization
equity_utilization(a) ==
    IF a.account_value > 0
    THEN times(truediv(a.total_margin_used, a.account_value), 100)
    ELSE Ok(ZeroFloat)

\* AccountSummary.to_dict: the four fields and the four derived figures,
\* evaluated in the order of the dictionary display
AccountSummary_to_dict(a) ==
    LET cmr == cross_margin_ratio(a)
        cl == cross_leverage(a)
        ab == available_balance(a)
        eu == equity_utilization(a)
        exc == FirstExc(<<cmr, cl, ab, eu>>)
    IN  IF exc # "none" THEN Raise(exc)
        ELSE Ok([account_value |-> a.account_value,
                 total_ntl_pos |-> a.total_ntl_pos,
                 total_raw_usd |-> a.total_raw_usd,
                 total_margin_used |-> a.total_margin_used,
                 cross_margin_ratio |-> cmr.v,
                 cross_leverage |-> cl.v,
                 available_balance |-> ab.v,
                 equity_utilization |-> eu.v])

(***************************************************************************)
(* Specification SpecAccount: the derived figures of an AccountSummary     *)
(* whose fields are drawn from bounded sets                                *)
(***************************************************************************)
AccountValues == {-10000, -1, 0, 1, 3, 10000}
MarginValues == {-5, 0, 1, 2500}
NtlValues == {-15000, 0, 7, 15000}

AccountSummaries ==
    [account_value : AccountValues, total_ntl_pos : NtlValues,
     total_raw_usd : {0}, total_margin_used : MarginValues]

InitAccount ==
    /\ now = 0
    /\ cache = EmptyDict
    /\ res = NoRes
    /\ raw \in {[kind |-> "account", account |-> a] : a \in AccountSummaries}
    /\ out = NoOut
    /\ pc = [c \in Callers |-> "idle"]
    /\ call = [c \in Callers |-> NoCall]
    /\ ncalls = 0

\* one property of the summary, or to_dict, is evaluated
AccountEval(op, r) ==
    /\ raw.kind = "account"
    /\ out' = [op |-> op, limit |-> 0, r |-> r]
    /\ UNCHANGED <<now, cache, res, raw, pc, call, ncalls>>

AccountCrossMarginRatio == AccountEval("cross_margin_ratio", cross_margin_ratio(raw.account))
AccountCrossLeverage == AccountEval("cross_leverage", cross_leverage(raw.account))
AccountAvailableBalance == AccountEval("available_balance", available_balance(raw.account))
AccountToDict == AccountEval("to_dict", AccountSummary_to_dict(raw.account))

NextAccount ==
    \/ AccountCrossMarginRatio
    \/ AccountCrossLeverage
    \/ AccountAvailableBalance
    \/ AccountToDict

SpecAccount == InitAccount /\ [][NextAccount]_vars

(***************************************************************************)
(* Derived figures of a Position (src/src/models/position.py) and          *)
(* PositionService.calculate_portfolio_metrics                             *)
(***************************************************************************)
\* Position.pnl_percentage
pnl_percentage(p) ==
    IF p.size * p.entry_price > 0
    THEN times(truediv(p.unrealized_pnl, p.size * p.entry_price), 100)
    ELSE Ok(ZeroFloat)

\* Position.is_profitable with a strict comparison
is_profitable_strict(p) == p.unrealized_pnl > 0
\* Position.is_profitable
is_profitable(p) == p.unrealized_pnl >= 0

\* Python sum(xs)
RECURSIVE sum_of(_)
sum_of(xs) == IF xs = <<>> THEN 0 ELSE Head(xs) + sum_of(Tail(xs))

\* Python max(xs) and min(xs) of a non-empty list, left to right
RECURSIVE max_of(_)
max_of(xs) ==
    IF Len(xs) = 1 THEN Head(xs)
    ELSE LET m == max_of(Tail(xs))
         IN  IF m > Head(xs) THEN m ELSE Head(xs)

RECURSIVE min_of(_)
min_of(xs) ==
    IF Len(xs) = 1 THEN Head(xs)
    ELSE LET m == min_of(Tail(xs))
         IN  IF m < Head(xs) THEN m ELSE Head(xs)

\* the dictionary returned for an empty list
EmptyMetrics ==
    [total_positions |-> 0,
     profitable_positions |-> 0,
     losing_positions |-> 0,
     total_unrealized_pnl |-> 0,
     largest_position_value |-> 0,
     average_leverage |-> ZeroFloat,
     risk_metrics |-> [max_drawdown_risk |-> ZeroFloat,
                       concentration_risk |-> ZeroFloat]]

\* PositionService.calculate_portfolio_metrics
calculate_portfolio_metrics(positions, account_summary) ==
    IF positions = <<>> THEN Ok(EmptyMetrics)
    ELSE
    LET profitable_positions == SelectSeq(positions, is_profitable)
        losing_positions == SelectSeq(positions, LAMBDA p : ~is_profitable(p))
        I == 1..Len(positions)
        total_unrealized_pnl == sum_of([i \in I |-> positions[i].unrealized_pnl])
        position_values == [i \in I |-> position_value(positions[i])]
        largest_position_value == max_of(position_values)
        total_margin == sum_of([i \in I |-> positions[i].margin_used])
        weighted_leverage ==
            IF total_margin > 0
            THEN truediv(sum_of([i \in I |-> positions[i].leverage * positions[i].margin_used]),
                         total_margin)
            ELSE Ok(ZeroFloat)
        has_value == account_summary.account_value > 0
        max_single_loss == min_of([i \in I |-> positions[i].unrealized_pnl])
        max_drawdown_risk ==
            IF has_value
            THEN times(truediv(Abs(max_single_loss), account_summary.account_value), 100)
            ELSE Ok(ZeroFloat)
        concentration_risk ==
            IF has_value
            THEN times(truediv(largest_position_value, account_summary.account_value), 100)
            ELSE Ok(ZeroFloat)
        exc == FirstExc(<<weighted_leverage, max_drawdown_risk, concentration_risk>>)
    IN  IF exc # "none" THEN Raise(exc)
        ELSE Ok([total_positions |-> Len(positions),
                 profitable_positions |-> Len(profitable_positions),
                 losing_positions |-> Len(losing_positions),
                 total_unrealized_pnl |-> total_unrealized_pnl,
                 largest_position_value |-> largest_position_value,
                 average_leverage |-> weighted_leverage.v,
                 risk_metrics |-> [max_drawdown_risk |-> max_drawdown_risk.v,
                                   concentration_risk |-> concentration_risk.v]])

(***************************************************************************)
(* Specification SpecMetrics: calculate_portfolio_metrics and the derived  *)
(* figures of a position, on positions and an account summary drawn from   *)
(* bounded sets                                                            *)
(***************************************************************************)
MaxPositions == 2

\* size, entry price and mark price of a position
Holdings == {<<0, 1800, 2000>>, <<2, 1800, 2000>>}

MetricPositions ==
    {[symbol |-> "ETH", side |-> LONG, size |-> h[1], entry_price |-> h[2],
      mark_price |-> h[3], liq_price |-> 1500, unrealized_pnl |-> pnl,
      leverage |-> lev, margin_used |-> m] :
        h \in Holdings, pnl \in {-120, 0, 50}, lev \in {2, 5}, m \in {-900, 0, 300}}

MetricAccounts ==
    [account_value : {-1, 0, 7, 1000}, total_ntl_pos : {0},
     total_raw_usd : {0}, total_margin_used : {0}]

InitMetrics ==
    /\ now = 0
    /\ cache = EmptyDict
    /\ res = NoRes
    /\ raw \in {[kind |-> "metrics", positions |-> ps, account |-> a] :
                    ps \in SeqsUpTo(MetricPositions, MaxPositions),
                    a \in MetricAccounts}
    /\ out = NoOut
    /\ pc = [c \in Callers |-> "idle"]
    /\ call = [c \in Callers |-> NoCall]
    /\ ncalls = 0

\* calculate_portfolio_metrics(positions, account_summary) is called
CalculatePortfolioMetrics ==
    /\ raw.kind = "metrics"
    /\ out' = [op |-> "calculate_portfolio_metrics", limit |-> 0,
               r |-> calculate_portfolio_metrics(raw.positions, raw.account)]
    /\ UNCHANGED <<now, cache, res, raw, pc, call, ncalls>>

\* the pnl_percentage of the first position is read
PositionPnlPercentage ==
    /\ raw.kind = "metrics"
    /\ raw.positions # <<>>
    /\ out' = [op |-> "pnl_percentage", limit |-> 0,
               r |-> pnl_percentage(raw.positions[1])]
    /\ UNCHANGED <<now, cache, res, raw, pc, call, ncalls>>

NextMetrics == CalculatePortfolioMetrics \/ PositionPnlPercentage

SpecMetrics == InitMetrics /\ [][NextMetrics]_vars

(***************************************************************************)
(* Specification SpecUnified: the threaded unified monitor                 *)
(* (src/unified_monitor.py).  The scheduler thread runs                    *)
(* run_position_update, the bot thread the /position and /prices handlers; *)
(* each `with self.cache_lock` block and each remote request is a step.    *)
(* The cache is the record of the three cached datasets and the one        *)
(* cache_timestamp they share.  A fetched dataset carries the number of    *)
(* the handler run that fetched it (its fetch cycle) and the time of the   *)
(* fetch.                                                                  *)
(***************************************************************************)
MaxUniCalls == 3
MaxUniTicks == 2
UniTickStep == 20

cache_duration == 30

\* time.time() when the monitor is constructed (seconds since the epoch)
Epoch == 100

UniHandlers == [scheduler |-> {"update"}, command |-> {"position", "prices"}]

\* self.cached_* = None, self.cache_timestamp = 0
UniCache ==
    [cached_positions |-> None, cached_account_data |-> None,
     cached_mark_prices |-> None, cache_timestamp |-> 0]

\* the locals of a handler run
UniLocals(handler, id, t) ==
    [handler |-> handler, id |-> id, started |-> t,
     force_refresh |-> handler = "update",
     active_positions |-> None, positions |-> None, account_data |-> None,
     mids |-> None, max_age |-> 0]

\* the datasets built from an answer of the exchange
UniPositions(id, t, symbols) ==
    [kind |-> "positions", cycle |-> id, at |-> t, symbols |-> symbols, marks |-> None]
UniAccount(id, t) == [kind |-> "account", cycle |-> id, at |-> t]
UniMids(id, t) == [kind |-> "mids", cycle |-> id, at |-> t, empty |-> FALSE]
\* the {} returned by get_mark_prices after a failed request
NoMids == [kind |-> "mids", cycle |-> 0, at |-> 0, empty |-> TRUE]

InitUnified ==
    /\ now = Epoch
    /\ cache = UniCache
    /\ res = NoRes
    /\ raw = NoRaw
    /\ out = NoOut
    /\ pc = [c \in Callers |-> "idle"]
    /\ call = [c \in Callers |-> NoCall]
    /\ ncalls = 0

\* is_cache_valid
is_cache_valid(c, t) == (t - c.cache_timestamp) < cache_duration

\* the test at the head of the three fetch functions
uni_hit(force_refresh, c, t, cached) ==
    ~force_refresh /\ is_cache_valid(c, t) /\ cached # None

\* the timestamp after fetch_positions or fetch_account_metrics has stored
stamp_if_stale(c, t) ==
    IF (t - c.cache_timestamp) > cache_duration THEN t ELSE c.cache_timestamp

Older(a, b) == IF a > b THEN a ELSE b

UniGoto(c, label, locals) ==
    /\ pc' = [pc EXCEPT ![c] = label]
    /\ call' = [call EXCEPT ![c] = locals]

\* run_position_update, handle_position_command or handle_prices_command
\* begins
UniStart(c, handler) ==
    /\ pc[c] = "idle"
    /\ ncalls < MaxUniCalls
    /\ "wake" \in DOMAIN call[c] => now >= call[c].wake
    /\ handler \in UniHandlers[c]
    /\ ncalls' = ncalls + 1
    /\ UniGoto(c, IF handler = "prices" THEN "gm_check" ELSE "fp_check",
               UniLocals(handler, ncalls + 1, now))
    /\ UNCHANGED <<now, cache, res, raw, out>>

\* fetch_positions, lines 166-168
FetchPositionsCheck(c) ==
    /\ pc[c] = "fp_check"
    /\ LET k == call[c]
       IN  IF uni_hit(k.force_refresh, cache, now, cache.cached_positions)
           THEN UniGoto(c, "am_check",
                    [k EXCEPT !.positions = cache.cached_positions,
                              !.max_age = Older(@, now - cache.cached_positions.at)])
           ELSE UniGoto(c, "fp_request", k)
    /\ UNCHANGED <<now, cache, res, raw, out, ncalls>>

\* fetch_positions, lines 170-213 and 233-238: the request fails or a record
\* does not parse (None is returned), or the active positions are built
FetchPositionsRequest(c) ==
    /\ pc[c] = "fp_request"
    /\ LET k == call[c]
       IN  \E answer \in {"failed", "none_open", "some_open"} :
            CASE answer = "failed" -> UniGoto(c, "am_check", k)
              [] answer = "none_open" ->
                    UniGoto(c, "fp_store",
                        [k EXCEPT !.active_positions = UniPositions(k.id, now, FALSE)])
              [] answer = "some_open" ->
                    UniGoto(c, "gm_check",
                        [k EXCEPT !.active_positions = UniPositions(k.id, now, TRUE)])
    /\ UNCHANGED <<now, cache, res, raw, out, ncalls>>

\* get_mark_prices has returned mids: to its caller's next statement
after_mark_prices(k, mids) ==
    IF k.handler = "prices" THEN [label |-> "report", locals |-> [k EXCEPT !.mids = mids]]
    ELSE [label |-> "fp_store",
          locals |-> [k EXCEPT !.mids = mids,
                        !.active_positions.marks = IF mids.empty THEN None ELSE mids]]

\* get_mark_prices(), lines 130-132 (no caller passes force_refresh)
GetMarkPricesCheck(c) ==
    /\ pc[c] = "gm_check"
    /\ LET k == call[c]
           r == after_mark_prices(
                    [k EXCEPT !.max_age = Older(@, now - cache.cached_mark_prices.at)],
                    cache.cached_mark_prices)
       IN  IF uni_hit(FALSE, cache, now, cache.cached_mark_prices)
           THEN UniGoto(c, r.label, r.locals)
           ELSE UniGoto(c, "gm_request", k)
    /\ UNCHANGED <<now, cache, res, raw, out, ncalls>>

\* get_mark_prices, lines 134-151 and 160-162
GetMarkPricesRequest(c) ==
    /\ pc[c] = "gm_request"
    /\ LET k == call[c]
           r == after_mark_prices(k, NoMids)
       IN  \E ok \in BOOLEAN :
            IF ok THEN UniGoto(c, "gm_store", [k EXCEPT !.mids = UniMids(k.id, now)])
            ELSE UniGoto(c, r.label, r.locals)
    /\ UNCHANGED <<now, cache, res, raw, out, ncalls>>

\* get_mark_prices, lines 154-158
GetMarkPricesStore(c) ==
    /\ pc[c] = "gm_store"
    /\ LET k == call[c]
           r == after_mark_prices(k, k.mids)
       IN  /\ cache' = [cache EXCEPT !.cached_mark_prices = k.mids,
                                     !.cache_timestamp = now]
           /\ UniGoto(c, r.label, r.locals)
    /\ UNCHANGED <<now, res, raw, out, ncalls>>

\* fetch_positions, lines 226-231
FetchPositionsStore(c) ==
    /\ pc[c] = "fp_store"
    /\ LET k == call[c]
       IN  /\ cache' = [cache EXCEPT !.cached_positions = k.active_positions,
                                     !.cache_timestamp = stamp_if_stale(cache, now)]
           /\ UniGoto(c, "am_check", [k EXCEPT !.positions = k.active_positions])
    /\ UNCHANGED <<now, res, raw, out, ncalls>>

\* fetch_account_metrics, lines 242-244
FetchAccountCheck(c) ==
    /\ pc[c] = "am_check"
    /\ LET k == call[c]
       IN  IF uni_hit(k.force_refresh, cache, now, cache.cached_account_data)
           THEN UniGoto(c, "report",
                    [k EXCEPT !.account_data = cache.cached_account_data,
                              !.max_age = Older(@, now - cache.cached_account_data.at)])
           ELSE UniGoto(c, "am_request", k)
    /\ UNCHANGED <<now, cache, res, raw, out, ncalls>>

\* fetch_account_metrics, lines 246-257 and 267-272
FetchAccountRequest(c) ==
    /\ pc[c] = "am_request"
    /\ LET k == call[c]
       IN  \E ok \in BOOLEAN :
            IF ok THEN UniGoto(c, "am_store", [k EXCEPT !.account_data = UniAccount(k.id, now)])
            ELSE UniGoto(c, "report", k)
    /\ UNCHANGED <<now, cache, res, raw, out, ncalls>>

\* fetch_account_metrics, lines 260-265
FetchAccountStore(c) ==
    /\ pc[c] = "am_store"
    /\ cache' = [cache EXCEPT !.cached_account_data = call[c].account_data,
                              !.cache_timestamp = stamp_if_stale(cache, now)]
    /\ UniGoto(c, "report", call[c])
    /\ UNCHANGED <<now, res, raw, out, ncalls>>

\* what the handler sends: the report, an error text, or nothing when a
\* scheduled update has failed
uni_message(c, k) ==
    LET failed == IF k.handler = "prices" THEN k.mids.empty
                  ELSE k.positions = None \/ k.account_data = None
    IN  IF failed /\ k.handler = "update" THEN out
        ELSE [op |-> IF failed THEN "error" ELSE "report", by |-> c,
              handler |-> k.handler, id |-> k.id, started |-> k.started,
              positions |-> k.positions, account_data |-> k.account_data]

\* the rest of the handler: the message is formatted and sent; the bot
\* thread goes back to polling, the scheduler thread sleeps in main_loop
\* (lines 790-795) for as long as the success of the update says
UniReport(c) ==
    /\ pc[c] = "report"
    /\ out' = uni_message(c, call[c])
    /\ \E sent \in BOOLEAN :
        UniGoto(c, "idle",
            IF c = "scheduler"
            THEN [wake |-> now + loop_delay(call[c].positions # None
                                            /\ call[c].account_data # None
                                            /\ sent)]
            ELSE NoCall)
    /\ UNCHANGED <<now, cache, res, raw, ncalls>>

\* time passes while every thread is idle or waits for an answer; the
\* statements between two requests take no time
UniTick ==
    /\ \A c \in Callers : pc[c] \in {"idle", "fp_request", "gm_request", "am_request"}
    /\ now < Epoch + MaxUniTicks * UniTickStep
    /\ now' = now + UniTickStep
    /\ UNCHANGED <<cache, res, raw, out, pc, call, ncalls>>

UniStep(c) ==
    \/ FetchPositionsCheck(c)
    \/ FetchPositionsRequest(c)
    \/ GetMarkPricesCheck(c)
    \/ GetMarkPricesRequest(c)
    \/ GetMarkPricesStore(c)
    \/ FetchPositionsStore(c)
    \/ FetchAccountCheck(c)
    \/ FetchAccountRequest(c)
    \/ FetchAccountStore(c)
    \/ UniReport(c)

NextUnified ==
    \/ UniTick
    \/ \E c \in Callers, handler \in {"update", "position", "prices"} : UniStart(c, handler)
    \/ \E c \in Callers : UniStep(c)

SpecUnified == InitUnified /\ [][NextUnified]_vars

(***************************************************************************)
(* Specification SpecBot: TelegramBot._process_update                      *)
(* (src/src/bot/telegram_bot.py) on updates drawn from a bounded set.  A   *)
(* text is the list of its words; a data fetch and a send_message attempt  *)
(* are steps whose outcome is chosen freely.                               *)
(***************************************************************************)
MaxBotUpdates == 2

\* self.command_handlers
command_handlers ==
    [start |-> "menu", help |-> "help", position |-> "position",
     prices |-> "prices", fills |-> "fills", openorders |-> "openorders",
     status |-> "status", menu |-> "menu"]

Registered ==
    {"/start", "/help", "/position", "/prices", "/fills", "/openorders",
     "/status", "/menu"}

\* the handler registered for a command word
handler_of(command) ==
    CASE command = "/start" -> command_handlers.start
      [] command = "/help" -> command_handlers.help
      [] command = "/position" -> command_handlers.position
      [] command = "/prices" -> command_handlers.prices
      [] command = "/fills" -> command_handlers.fills
      [] command = "/openorders" -> command_handlers.openorders
      [] command = "/status" -> command_handlers.status
      [] command = "/menu" -> command_handlers.menu

\* str.lower() on the words of the model
lower(word) ==
    CASE word = "/HELP" -> "/help"
      [] word = "/Position" -> "/position"
      [] OTHER -> word

\* str.startswith('/') on a text given as its words
starts_with_slash(words) ==
    words # <<>> /\ Head(words) \notin {"hello", "now"}

\* text.split()[0].lower()
first_word_lower(words) == lower(Head(words))

\* callback_data.lower(): the whole string; a string of several words is
\* no command word
whole_lower(words) == IF Len(words) = 1 THEN lower(Head(words)) ELSE "several words"

BotTexts ==
    {<<w>> : w \in Registered \cup {"/HELP", "/Position", "/bogus", "hello"}}
    \cup {<<"/position", "now">>, <<>>}

Chats == {"configured", "other"}

BotUpdates ==
    [kind : {"message", "callback_query"}, chat : Chats, text : BotTexts]

\* the locals of _process_update and of the handler it runs
BotLocals(update) ==
    [update |-> update, handler |-> "none", answered |-> FALSE,
     fetches |-> 0, sends |-> 0]

InitBot ==
    /\ now = 0
    /\ cache = EmptyDict
    /\ res = NoRes
    /\ raw = NoRaw
    /\ out = NoOut
    /\ pc = [c \in Callers |-> "idle"]
    /\ call = [c \in Callers |-> NoCall]
    /\ ncalls = 0

BotGoto(label, locals) ==
    /\ pc' = [pc EXCEPT !["command"] = label]
    /\ call' = [call EXCEPT !["command"] = locals]

\* _poll_updates hands an update to _process_update
BotReceive ==
    /\ pc["command"] = "idle"
    /\ ncalls < MaxBotUpdates
    /\ ncalls' = ncalls + 1
    /\ \E update \in BotUpdates :
        /\ raw' = [kind |-> "update", update |-> update]
        /\ BotGoto("dispatch", BotLocals(update))
    /\ UNCHANGED <<now, cache, res, out>>

\* where the command word leads: the registered handler or the reply to an
\* unknown command
to_command(k, command) ==
    IF command \in Registered
    THEN [label |-> "handler", locals |-> [k EXCEPT !.handler = handler_of(command)]]
    ELSE [label |-> "send_last", locals |-> [k EXCEPT !.handler = "unknown"]]

\* _handle_message, lines 94-113
handle_message(k) ==
    LET text == k.update.text
    IN  IF k.update.chat # "configured" THEN [label |-> "done", locals |-> k]
        ELSE IF starts_with_slash(text) THEN to_command(k, first_word_lower(text))
        ELSE [label |-> "send", locals |-> [k EXCEPT !.handler = "menu"]]

\* _handle_callback_query, lines 117-131
handle_callback_query(k) ==
    LET callback_data == k.update.text
        a == [k EXCEPT !.answered = TRUE]
    IN  IF starts_with_slash(callback_data) THEN to_command(a, whole_lower(callback_data))
        ELSE [label |-> "done", locals |-> a]

\* _process_update up to the call of the handler
BotDispatch ==
    /\ pc["command"] = "dispatch"
    /\ LET k == call["command"]
           r == IF k.update.kind = "message" THEN handle_message(k)
                ELSE handle_callback_query(k)
       IN  BotGoto(r.label, r.locals)
    /\ UNCHANGED <<now, cache, res, raw, out, ncalls>>

\* the handler up to its first send_message: the menu handlers send at
\* once, _handle_help raises AttributeError while its arguments are
\* evaluated (Settings has no refresh_interval_seconds) and
\* _process_update catches it, the others fetch their data first
BotHandler ==
    /\ pc["command"] = "handler"
    /\ LET k == call["command"]
           f == [k EXCEPT !.fetches = @ + 1]
       IN  CASE k.handler = "menu" -> BotGoto("send", k)
             [] k.handler = "help" -> BotGoto("done", k)
             [] OTHER ->
                \E outcome \in {"data", "nothing", "raised"} :
                    IF outcome = "raised" \/ (outcome = "nothing" /\ k.handler = "position")
                    THEN BotGoto("send_last", f)
                    ELSE BotGoto("send", f)
    /\ UNCHANGED <<now, cache, res, raw, out, ncalls>>

\* send_message with the requested content; a failed send is followed by
\* the sending of an error message
BotSend ==
    /\ pc["command"] = "send"
    /\ \E success \in BOOLEAN :
        BotGoto(IF success THEN "done" ELSE "send_last",
                [call["command"] EXCEPT !.sends = @ + 1])
    /\ UNCHANGED <<now, cache, res, raw, out, ncalls>>

\* send_message with an error text or the reply to an unknown command
BotSendLast ==
    /\ pc["command"] = "send_last"
    /\ BotGoto("done", [call["command"] EXCEPT !.sends = @ + 1])
    /\ UNCHANGED <<now, cache, res, raw, out, ncalls>>

\* _process_update returns
BotDone ==
    /\ pc["command"] = "done"
    /\ LET k == call["command"]
       IN  out' = [op |-> "processed", update |-> k.update, handler |-> k.handler,
                   answered |-> k.answered, fetches |-> k.fetches, sends |-> k.sends]
    /\ BotGoto("idle", NoCall)
    /\ UNCHANGED <<now, cache, res, raw, ncalls>>

NextBot ==
    \/ BotReceive
    \/ BotDispatch
    \/ BotHandler
    \/ BotSend
    \/ BotSendLast
    \/ BotDone

SpecBot == InitBot /\ [][NextBot]_vars

(***************************************************************************)
(* Specification SpecMonitor: PositionMonitor.start and _monitor_cycle     *)
(* (src/src/monitor/position_monitor.py) in the application of             *)
(* src/src/main.py.  The monitor and the bot are tasks of one event loop   *)
(* and the fetch of a cycle is a call that is not awaited: commands are    *)
(* handled while the monitor sleeps.  The monitor's                        *)
(* fields are the record kept in `out`; the fetch of a cycle is the        *)
(* PositionService call of the scheduler, step by step as above; the rest  *)
(* of the cycle and the sleep that start() chooses are one step.           *)
(***************************************************************************)
MaxCycles == 10
MaxMonitorCommands == 1

monitor_retry_delay == 30

\* what is remembered of the latest cycle: the fields and the cache as the
\* cycle found them and what it did
NoCycle ==
    [before |-> None, sent |-> <<>>, cleaned |-> FALSE,
     new_positions |-> <<>>, slept |-> 0]

\* PositionMonitor.__init__
NewMonitor ==
    [op |-> "monitor", phase |-> "sleeping", update_count |-> 0,
     last_positions |-> None, last_account |-> None, wake |-> 0,
     cycle |-> NoCycle]

InitMonitor ==
    /\ now = 0
    /\ cache = EmptyDict
    /\ res = NoRes
    /\ raw = NoRaw
    /\ out = NewMonitor
    /\ pc = [c \in Callers |-> "idle"]
    /\ call = [c \in Callers |-> NoCall]
    /\ ncalls = 0

\* {pos.symbol for pos in positions}
symbols_of(list) == {list[i].symbol : i \in 1..Len(list)}

\* `not self.last_positions`: None or the empty list
no_last_positions(last_positions) ==
    last_positions = None \/ last_positions.list = <<>>

\* _detect_new_positions
detect_new_positions(last_positions, current) ==
    IF no_last_positions(last_positions) THEN <<>>
    ELSE SelectSeq(current, LAMBDA p : p.symbol \notin symbols_of(last_positions.list))

\* _detect_closed_positions
detect_closed_positions(last_positions, current) ==
    IF no_last_positions(last_positions) THEN <<>>
    ELSE SelectSeq(last_positions.list, LAMBDA p : p.symbol \notin symbols_of(current))

\* _detect_significant_pnl_changes: the test of line 232 on a position and
\* the position of the same symbol in the last update
pnl_changed(last_pos, current_pos) ==
    LET pnl_change == current_pos.unrealized_pnl - last_pos.unrealized_pnl
    IN  \/ Abs(pnl_change) > 100
        \/ /\ last_pos.unrealized_pnl # 0
           /\ Abs(pnl_change) * 100 > 5 * Abs(last_pos.unrealized_pnl)

detect_significant_pnl_changes(last_positions, current) ==
    IF no_last_positions(last_positions) THEN <<>>
    ELSE SelectSeq(current, LAMBDA p :
            \E i \in 1..Len(last_positions.list) :
                /\ last_positions.list[i].symbol = p.symbol
                /\ pnl_changed(last_positions.list[i], p))

Alert(kind, list) == [kind |-> kind, symbols |-> [i \in 1..Len(list) |-> list[i].symbol]]

\* _check_and_send_updates: the messages it attempts to send; without
\* positions or account every path that sends raises before it does, and
\* the handlers of lines 152 and 181 catch it
check_and_send_updates(m, positions, account_summary) ==
    IF positions = None \/ account_summary = None THEN <<>>
    ELSE IF m.update_count % 12 = 0 THEN <<Alert("periodic", positions.list)>>
    ELSE IF m.last_positions = None \/ m.last_account = None THEN <<>>
    ELSE LET new_positions == detect_new_positions(m.last_positions, positions.list)
             closed_positions == detect_closed_positions(m.last_positions, positions.list)
             significant == detect_significant_pnl_changes(m.last_positions, positions.list)
         IN  (IF new_positions # <<>> THEN <<Alert("new", new_positions)>> ELSE <<>>)
             \o (IF closed_positions # <<>> THEN <<Alert("closed", closed_positions)>> ELSE <<>>)
             \o (IF significant # <<>> THEN <<Alert("pnl", significant)>> ELSE <<>>)

\* lines 91-92 alone: only an exception ends the cycle early
cycle_returns_early_raised(ret) == "raised" \in DOMAIN ret
\* lines 73-75 and 91-92: the fetch gave no data or raised, and the cycle
\* ends there
cycle_returns_early(ret) ==
    \/ "raised" \in DOMAIN ret
    \/ ret.positions = None
    \/ ret.account = None

\* line 88
cleanup_due(update_count) == update_count % 10 = 0

\* start(), lines 46-54: _monitor_cycle catches what is raised inside it,
\* so it returns to line 47 whatever happened
escapes_cycle(ret) == FALSE

monitor_sleep(ret) ==
    IF escapes_cycle(ret) THEN monitor_retry_delay ELSE refresh_interval

\* line 63: the cycle begins
MonBegin ==
    /\ AppIdle
    /\ out.phase = "sleeping"
    /\ now >= out.wake
    /\ out.update_count < MaxCycles
    /\ out' = [out EXCEPT !.phase = "cycle", !.update_count = @ + 1,
                          !.cycle = [NoCycle EXCEPT !.before =
                                [last_positions |-> out.last_positions,
                                 last_account |-> out.last_account,
                                 cache |-> cache]]]
    /\ call' = [call EXCEPT !["scheduler"] = NoCall]
    /\ UNCHANGED <<now, cache, res, raw, pc, ncalls>>

\* lines 68-71
MonFetch ==
    /\ out.phase = "cycle"
    /\ call["scheduler"].op = "none"
    /\ CallGetPositionsAndAccount("scheduler", FALSE, TRUE, FALSE)

\* the positions of the answer that the last update did not hold
unseen(m, positions) ==
    IF positions = None THEN <<>>
    ELSE SelectSeq(positions.list, LAMBDA p :
            m.last_positions = None \/ p.symbol \notin symbols_of(m.last_positions.list))

\* lines 73-92 and the sleep of start()
MonFinish ==
    /\ out.phase = "cycle"
    /\ pc["scheduler"] = "idle"
    /\ call["scheduler"].returned
    /\ LET ret == call["scheduler"].ret
           slept == monitor_sleep(ret)
           m == [out EXCEPT !.phase = "sleeping", !.wake = now + slept,
                            !.cycle.slept = slept]
       IN  IF cycle_returns_early(ret)
           THEN /\ out' = m
                /\ cache' = cache
           ELSE /\ out' = [m EXCEPT
                        !.cycle.sent = check_and_send_updates(out, ret.positions, ret.account),
                        !.cycle.new_positions = Alert("new", unseen(out, ret.positions)).symbols,
                        !.cycle.cleaned = cleanup_due(out.update_count),
                        !.last_positions = ret.positions,
                        !.last_account = ret.account]
                /\ cache' = IF cleanup_due(out.update_count)
                            THEN cleanup_cache(cache, NoMaxAge, now)
                            ELSE cache
    /\ UNCHANGED <<now, res, raw, pc, call, ncalls>>

\* asyncio.sleep: the clock reaches the time the monitor wakes at
MonSleep ==
    /\ AppIdle
    /\ out.phase = "sleeping"
    /\ now < out.wake
    /\ now' = out.wake
    /\ UNCHANGED <<cache, res, raw, out, pc, call, ncalls>>

\* TelegramBot._handle_position while the monitor sleeps
MonCommand ==
    /\ AppIdle
    /\ out.phase = "sleeping"
    /\ ncalls - out.update_count < MaxMonitorCommands
    /\ CallGetPositionsAndAccount("command", TRUE, FALSE, FALSE)

NextMonitor ==
    \/ MonBegin
    \/ MonFetch
    \/ MonFinish
    \/ MonSleep
    \/ MonCommand
    \/ \E c \in Callers : GpaStep(c)

SpecMonitor == InitMonitor /\ [][NextMonitor]_vars

(***************************************************************************)
(* Claims about the cache service (checked under SpecCache)                *)
(***************************************************************************)
\* every entry of c except those under the keys in gone is still in d, untouched
KeptExcept(c, d, gone) ==
    /\ DOMAIN d = (DOMAIN c) \ gone
    /\ \A k \in DOMAIN d : d[k] = c[k]

\* this step is a call get(key, max_age)
IsGetStep(key, max_age) ==
    /\ now' = now
    /\ res'.op = "get" /\ res'.key = key /\ res'.max_age = max_age
    /\ <<cache', res'>> # <<cache, res>>

\* this step is a call cleanup_expired(max_age)
IsCleanupStep(max_age) ==
    /\ now' = now
    /\ res'.op = "cleanup" /\ res'.max_age = max_age
    /\ <<cache', res'>> # <<cache, res>>

\* C4: get(key, maxAge) returns the stored payload iff an entry exists and
\* now - storedTimestamp <= maxAge (the default TTL when maxAge is omitted);
\* a hit leaves the cache unchanged, a miss by expiry removes exactly that
\* entry, a miss on an absent key changes nothing.
C4_GetFreshness ==
    [][\A key \in TestKeys, max_age \in TestMaxAges :
        IsGetStep(key, max_age) =>
            IF Fresh(cache, key, max_age, now)
            THEN res'.ret = cache[key].data /\ cache' = cache
            ELSE res'.ret = None /\ KeptExcept(cache, cache', {key})]_vars

\* C4 witness: a get with the default TTL hit an entry aged exactly the TTL
C4_Witness ==
    /\ res.op = "get" /\ res.max_age = NoMaxAge
    /\ res.key \in DOMAIN cache
    /\ res.ret = cache[res.key].data
    /\ now - cache[res.key].timestamp = default_ttl

\* C10: cleanup_expired(maxAge) removes exactly the entries older than maxAge
\* (the default TTL when omitted), leaves the others untouched and returns
\* the number removed; with entries aged 10, 40 and 90 and TTL 30 it returns
\* 2 and leaves the entry aged 10.
C10_CleanupExact ==
    [][\A max_age \in TestMaxAges :
        IsCleanupStep(max_age) =>
            LET old == {k \in DOMAIN cache : now - cache[k].timestamp > Threshold(max_age)}
                ages == {now - cache[k].timestamp : k \in DOMAIN cache}
            IN  /\ KeptExcept(cache, cache', old)
                /\ res'.ret = [count |-> Cardinality(old)]
                /\ (/\ max_age = NoMaxAge
                    /\ ages = {10, 40, 90}
                    /\ Cardinality(DOMAIN cache) = 3)
                   => /\ res'.ret = [count |-> 2]
                      /\ {now - cache'[k].timestamp : k \in DOMAIN cache'} = {10}]_vars

\* C10 witness: a default-TTL cleanup at time 90 removed two of the three
\* entries and left the one aged 10
C10_Witness ==
    /\ res.op = "cleanup" /\ res.max_age = NoMaxAge
    /\ res.ret = [count |-> 2]
    /\ now = 90
    /\ Cardinality(DOMAIN cache) = 1
    /\ \A k \in DOMAIN cache : now - cache[k].timestamp = 10

(***************************************************************************)
(* Claims about the normalizer (checked under SpecNorm)                    *)
(***************************************************************************)
\* a direct get_positions call on an answered request has returned
PositionsReturned ==
    /\ out.op = "get_positions"
    /\ raw.resp.status = "ok"
    /\ out.r.exc = "none"

\* the exchange quotes a price for the symbol in the allMids response
Quoted(symbol) ==
    /\ raw.presp.status = "ok"
    /\ symbol \in DOMAIN raw.presp.mids
    /\ raw.presp.mids[symbol].t = "num"

\* C7: every position has markPrice 0 right after normalization; after the
\* hydration step a position whose symbol is quoted carries the quote's
\* price, a position without a quote keeps markPrice 0 and positionValue 0,
\* and the fetch returns all the positions either way.
C7_Hydration ==
    PositionsReturned =>
        /\ \A i \in 1..Len(out.r.active) : out.r.active[i].mark_price = 0
        /\ Len(out.r.positions) = Len(out.r.active)
        /\ \A i \in 1..Len(out.r.positions) :
            LET p == out.r.positions[i]
            IN  /\ [p EXCEPT !.mark_price = 0] = out.r.active[i]
                /\ IF Quoted(p.symbol)
                   THEN p.mark_price = raw.presp.mids[p.symbol].v
                   ELSE p.mark_price = 0 /\ position_value(p) = 0

\* C7 witness: one fetch returned a position hydrated from its quote and a
\* position whose symbol has no quote
C7_Witness ==
    /\ PositionsReturned
    /\ \E i, j \in 1..Len(out.r.positions) :
        /\ Quoted(out.r.positions[i].symbol)
        /\ out.r.positions[i].mark_price > 0
        /\ ~Quoted(out.r.positions[j].symbol)
        /\ out.r.positions[j].mark_price = 0

\* the raw item is a record none of whose numeric fields fails to parse
ParsesAsPosition(item) ==
    /\ item.position = "obj"
    /\ item.szi.t = "num"
    /\ \A f \in {"entryPx", "liquidationPx", "unrealizedPnl", "marginUsed"} :
        item[f].t \in {"num", "null", "absent"}
    /\ item.leverage.t \in {"num", "null", "absent", "dict"}

IsActiveRaw(item) == ParsesAsPosition(item) /\ item.szi.v # 0

\* the raw item has a size and a field that is not a number
IsBadRaw(item) ==
    /\ item.position = "obj"
    /\ item.szi.t \notin {"null", "absent"}
    /\ ~ParsesAsPosition(item)

\* C9: for every raw position with signed size s in the returned active
\* list, side = LONG iff s > 0, SHORT iff s < 0 and size = |s| > 0; a raw
\* position with s = 0 is not in the list and is not reported as an error.
C9_SideAndSize ==
    PositionsReturned =>
        LET kept == SelectSeq(raw.resp.items, IsActiveRaw)
        IN  /\ Len(out.r.positions) = Len(kept)
            /\ \A i \in 1..Len(kept) :
                LET s == kept[i].szi.v
                    p == out.r.positions[i]
                IN  /\ p.symbol = kept[i].coin
                    /\ (p.side = LONG <=> s > 0)
                    /\ (p.side = SHORT <=> s < 0)
                    /\ p.size = Abs(s)
                    /\ p.size > 0
            /\ out.r.log = Len(SelectSeq(raw.resp.items, IsBadRaw))

\* C9 witness: a response with a zero-size position next to a short one
\* returned only the short one, and nothing was logged
C9_Witness ==
    /\ PositionsReturned
    /\ \E i \in 1..Len(raw.resp.items) :
        raw.resp.items[i].szi = Num(0) /\ raw.resp.items[i].position = "obj"
    /\ Len(out.r.positions) = 1
    /\ out.r.positions[1].side = SHORT
    /\ out.r.positions[1].size = 2
    /\ out.r.log = 0

\* a list item the per-record handler is meant to skip: a numeric field
\* that does not coerce to a number
FillCoerces(item) ==
    \A f \in {"sz", "px", "fee", "closedPnl"} : item[f].t \in {"num", "absent"}

OrderCoerces(item) ==
    /\ item.sz.t = "num" \/ (item.sz.t = "absent" /\ item.size.t \in {"num", "absent"})
    /\ item.limitPx.t \in {"num", "absent"}

\* C8 (as claimed): in get_positions, get_user_fills and get_open_orders a
\* list item that fails numeric coercion never raises out of the fetch: it is
\* skipped and logged, and the records that do coerce are all returned.
C8_BadRecordNeverRaises ==
    (out.op # "none" /\ raw.resp.status = "ok") =>
        /\ out.r.exc = "none"
        /\ (out.op = "get_positions") =>
            Len(out.r.positions) = Len(SelectSeq(raw.resp.items, IsActiveRaw))
        /\ (out.op = "get_user_fills" /\ out.limit >= Len(raw.resp.items)) =>
            /\ Len(out.r.items) = Len(SelectSeq(raw.resp.items, FillCoerces))
            /\ out.r.log = Len(raw.resp.items) - Len(out.r.items)
        /\ (out.op = "get_open_orders" /\ out.limit >= Len(raw.resp.items)) =>
            /\ Len(out.r.items) = Len(SelectSeq(raw.resp.items, OrderCoerces))
            /\ out.r.log = Len(raw.resp.items) - Len(out.r.items)

(***************************************************************************)
(* Claims about PositionService (checked under Spec and SpecSeq)           *)
(***************************************************************************)
GPA == "get_positions_and_account"

\* the call of caller c is a get_positions_and_account call that has returned
GpaReturned(c) == call[c].op = GPA /\ call[c].returned

\* ret is a (positions, account_summary) tuple
IsPair(ret) == "positions" \in DOMAIN ret

\* ret is a tuple of two datasets, none of them None
IsFullPair(ret) == IsPair(ret) /\ ret.positions # None /\ ret.account # None

\* the number of clearinghouseState requests among reqs
StateRequests(reqs) == Len(SelectSeq(reqs, LAMBDA r : r = "clearinghouseState"))

\* C1: under any interleaving of concurrent callers of
\* get_positions_and_account(use_cache=True), every (positions, account)
\* pair returned to a caller, from the cache or freshly fetched, was
\* produced by one and the same fetch cycle.
C1_PairFromOneCycle ==
    \A c \in Callers :
        (GpaReturned(c) /\ IsFullPair(call[c].ret)) =>
            call[c].ret.positions.cycle = call[c].ret.account.cycle

\* the call of caller c ran with use_cache=True, force_refresh=False
Cached(k) == k.op = GPA /\ k.use_cache /\ ~k.force_refresh

\* C2: in get_positions_and_account(use_cache=True, force_refresh=False) a
\* hit needs both the positions and the account_summary entry present and
\* fresh; with exactly one of them present and fresh the call is a full
\* miss: both datasets are requested remotely and each returned value is
\* None or built by this very call, never the cached one.
C2_PartialHitIsMiss ==
    \A c \in Callers :
        LET k == call[c]
        IN  (GpaReturned(c) /\ Cached(k)) =>
                /\ k.hit <=> (k.fresh_positions /\ k.fresh_account)
                /\ k.hit => k.ret = Pair(k.cached_positions, k.cached_account)
                /\ (k.fresh_positions # k.fresh_account) =>
                    /\ StateRequests(k.requests) = 2
                    /\ IsPair(k.ret)
                    /\ k.ret.positions # None => k.ret.positions.cycle = k.id
                    /\ k.ret.account # None => k.ret.account.cycle = k.id
                    /\ k.fresh_positions => k.ret.positions # k.cached_positions
                    /\ k.fresh_account => k.ret.account # k.cached_account

\* a call found exactly one entry of the pair fresh, fetched both datasets
\* and returned them
C2_Witness ==
    \E c \in Callers :
        /\ GpaReturned(c) /\ Cached(call[c])
        /\ call[c].fresh_positions /\ ~call[c].fresh_account
        /\ IsFullPair(call[c].ret)

\* the call k of the caller and the call before it are two consecutive
\* get_positions_and_account(use_cache=True, force_refresh=False) calls, the
\* second of them over no later than the TTL after the first one began
TwiceWithinTTL(k) ==
    /\ k.returned /\ Cached(k)
    /\ k.prev # None /\ Cached(k.prev)
    /\ now - k.prev.t0 <= default_ttl

\* C3 as stated: two such calls within the TTL window issue at most one
\* remote call pair in total and the second returns the records of the first.
C3_AtMostOnePair ==
    \A c \in Callers :
        LET k == call[c]
        IN  TwiceWithinTTL(k) =>
                /\ StateRequests(k.prev.requests) + StateRequests(k.requests) <= 2
                /\ k.ret = k.prev.ret

\* C3, amended: when the first of the two calls fetched the pair itself and
\* returned it, the second call issues no remote request at all and returns
\* exactly the records the first one returned.
C3_SecondCallServedFromFirst ==
    \A c \in Callers :
        LET k == call[c]
        IN  (TwiceWithinTTL(k) /\ ~k.prev.hit /\ IsFullPair(k.prev.ret)) =>
                /\ k.requests = <<>>
                /\ k.hit
                /\ k.ret = k.prev.ret

\* the second call came back at the very end of the TTL window of a first
\* call that fetched with one active position
C3_Witness ==
    \E c \in Callers :
        LET k == call[c]
        IN  /\ TwiceWithinTTL(k) /\ ~k.prev.hit /\ IsFullPair(k.prev.ret)
            /\ k.prev.ret.positions.list # <<>>
            /\ now - k.prev.t0 = default_ttl
            /\ k.hit

\* C5: when the position-state request, the account request or the
\* mark-price request of a fetch fails, get_positions_and_account returns
\* (None, None), never an empty or partly hydrated positions list.
C5_FailsAsAWhole ==
    \A c \in Callers :
        LET k == call[c]
        IN  (GpaReturned(c) /\ ~k.hit /\ k.positions # None
                /\ (k.positions.failed \/ k.positions.unpriced)) =>
                k.ret = Pair(None, None)

\* the dataset a returned value stands for
Served(k) == IF k.op = GPA THEN k.ret.positions ELSE k.ret

\* C6: a request that fails at the transport layer under use_cache=True
\* leaves the cache as it was, so no later call is served, as a cache hit,
\* a value built from the failed fetch.
C6_FailedFetchNotServed ==
    \A c \in Callers :
        LET k == call[c]
        IN  (k.returned /\ k.hit) => ~Served(k).failed

(***************************************************************************)
(* Claims about the lock of the cache service (checked under SpecLock)     *)
(***************************************************************************)
\* the call of thread c is a finished CacheService call
LockDone(c) == "seen" \in DOMAIN call[c] /\ call[c].done

\* the finished call k had the effect and the result of the whole operation
\* applied in one piece to the cache it found when it took the lock
AsIfAtOnce(k) ==
    CASE k.op = "get" ->
            /\ k.ret = get_ret(k.seen, k.key, k.max_age, k.t)
            /\ k.after = get_cache(k.seen, k.key, k.max_age, k.t)
      [] k.op = "set" ->
            /\ k.ret = None
            /\ k.after = set_cache(k.seen, k.key, k.data, k.t)
      [] OTHER ->
            /\ k.ret = [count |-> cleanup_ret(k.seen, k.max_age, k.t)]
            /\ k.after = cleanup_cache(k.seen, k.max_age, k.t)

\* C11: get, set and cleanup_expired exclude one another: two threads are
\* never inside an operation at once, and every operation takes effect as
\* a whole on the cache it found, so that any concurrent run equals some
\* sequential order of the operations.
C11_MutualExclusion ==
    /\ \A c, d \in Callers : (holds_lock(c) /\ holds_lock(d)) => c = d
    /\ \A c \in Callers : LockDone(c) => AsIfAtOnce(call[c])

\* a get has deleted an expired entry while the other thread stood waiting
\* to write the same key
C11_Witness ==
    \E c, d \in Callers :
        /\ c # d
        /\ LockDone(c) /\ call[c].op = "get"
        /\ call[c].key \in DOMAIN call[c].seen
        /\ call[c].key \notin DOMAIN call[c].after
        /\ pc[d] = "acquire" /\ call[d].op = "set" /\ call[d].key = call[c].key

(***************************************************************************)
(* Claims about the use of the cache by PositionService (SpecSeq)          *)
(***************************************************************************)
\* the cache key of the dataset the call k is about (the positions key for
\* the positions/account pair)
KeyOf(k) ==
    CASE k.op = GPA -> POSITIONS_KEY
      [] k.op = "get_prices" -> PRICES_KEY
      [] k.op = "get_user_fills" -> FILLS_KEY
      [] OTHER -> ORDERS_KEY

\* the call k has built a result from the answers of the exchange
Built(k) == IF k.op = GPA THEN IsFullPair(k.ret) ELSE k.data # None

\* the cache c holds what the call k has built
HoldsResultOf(c, k) ==
    IF k.op = GPA
    THEN /\ POSITIONS_KEY \in DOMAIN c /\ c[POSITIONS_KEY].data = k.ret.positions
         /\ ACCOUNT_KEY \in DOMAIN c /\ c[ACCOUNT_KEY].data = k.ret.account
    ELSE KeyOf(k) \in DOMAIN c /\ c[KeyOf(k)].data = k.data

\* C12: a call consults the cache only with use_cache and not
\* force_refresh and writes it only with use_cache: with use_cache=False
\* no step of the call changes the cache and the call issues its remote
\* request; with force_refresh=True no entry is dropped and the remote
\* request is issued whatever the cache holds; with use_cache=True the
\* result built from the answers is in the cache when the call returns.
C12_CacheUse ==
    [][LET c == "command"
           k == call[c]
           r == call'[c]
       IN  /\ (pc[c] # "idle" /\ ~k.use_cache) => cache' = cache
           /\ (pc[c] # "idle" /\ k.force_refresh) =>
                \A key \in DOMAIN cache : key \in DOMAIN cache'
           /\ (pc[c] # "idle" /\ pc'[c] = "idle") =>
                /\ (~r.use_cache \/ r.force_refresh) =>
                        ~r.hit /\ r.requests # <<>> /\ r.cached = None
                            /\ r.cached_positions = None /\ r.cached_account = None
                /\ (r.use_cache /\ ~r.hit /\ Built(r)) => HoldsResultOf(cache', r)
      ]_vars

\* a call with use_cache=False has fetched a pair while the cache held an
\* entry of an earlier call, and the entry is still there
C12_Witness ==
    LET k == call["command"]
    IN  /\ k.op = GPA /\ k.returned /\ ~k.use_cache /\ IsFullPair(k.ret)
        /\ POSITIONS_KEY \in DOMAIN cache
        /\ cache[POSITIONS_KEY].data.cycle # k.id
        /\ now - cache[POSITIONS_KEY].timestamp <= default_ttl

(***************************************************************************)
(* Claims about the sharing of the cache (checked under SpecApp)           *)
(***************************************************************************)
\* C13: a /position request made within the TTL after a successful
\* scheduled refresh is served from the cache and issues no remote call.
C13_ServedAfterScheduledRefresh ==
    LET s == call["scheduler"]
        k == call["command"]
    IN  (/\ s.op = GPA /\ s.returned /\ IsFullPair(s.ret)
         /\ k.op = GPA /\ k.returned /\ k.id > s.id
         /\ now - s.t0 <= default_ttl) =>
            k.hit /\ k.requests = <<>>

(***************************************************************************)
(* Claims about the scheduler loop (checked under SpecLoop)                *)
(***************************************************************************)
\* the locals of the scheduler are those of main_loop
InLoop == "iteration" \in DOMAIN call["scheduler"]

\* no request occurs twice in reqs
NoRepeat(reqs) ==
    \A i, j \in 1..Len(reqs) : reqs[i] = reqs[j] => i = j

\* C14: a cycle that follows a failed one (a fetch without data, or a
\* failed delivery) starts retry_delay = 60 seconds after it, a cycle that
\* follows a successful one refresh_interval after it, and no request is
\* made twice within one cycle.
C14_FixedRetryDelay ==
    LET k == call["scheduler"]
    IN  InLoop =>
            /\ NoRepeat(k.requests)
            /\ (k.iteration > 1 /\ pc["scheduler"] \notin {"loop_top", "stopped"}) =>
                /\ k.prev_success = ~k.prev_fault
                /\ k.prev_fault => k.started - k.ended = 60
                /\ ~k.prev_fault => k.started - k.ended = refresh_interval

\* a cycle whose delivery failed was followed by the next one, which in
\* turn went well
C14_Witness ==
    LET k == call["scheduler"]
    IN  /\ InLoop /\ k.iteration = 2 /\ pc["scheduler"] = "after_run"
        /\ k.prev_fault /\ k.started - k.ended = 60
        /\ k.success /\ Len(k.requests) = 4

\* a cycle of main_loop has failed and left the scheduler before its sleep
AfterFailedCycle ==
    /\ InLoop
    /\ pc["scheduler"] = "after_run"
    /\ ~call["scheduler"].success
    /\ ~call["scheduler"].run_once
    /\ call["scheduler"].iteration < MaxIterations

\* C15: a failed delivery comes back to the cycle as False and ends
\* neither the cycle nor the loop: the loop is left only by run_once or by
\* the external shutdown, and after a failed cycle, whatever failed in it
\* and in the cycles before, the scheduler starts another cycle unless the
\* shutdown is signalled.
C15_LoopSurvivesFailures ==
    /\ [](InLoop =>
            /\ call["scheduler"].sent = "failed" => ~call["scheduler"].success
            /\ pc["scheduler"] = "exited" => call["scheduler"].run_once)
    /\ AfterFailedCycle ~> (pc["scheduler"] \in {"fetch_positions", "stopped"})

\* the third cycle has started after a cycle that could not deliver its
\* message
C15_Witness ==
    /\ InLoop
    /\ pc["scheduler"] = "fetch_positions"
    /\ call["scheduler"].iteration = 3
    /\ call["scheduler"].prev_sent = "failed"

(***************************************************************************)
(* Claims about the long-poll cursor (checked under SpecPoll)              *)
(***************************************************************************)
\* the locals of the command path are those of the polling bot
InPoll == "last_update_id" \in DOMAIN call["command"]

\* C16: every poll asks for offset = last_update_id + 1, last_update_id
\* never decreases whatever updates are received, and no update is handed
\* to the handlers a second time.
C16_CursorIncrements ==
    [][InPoll =>
        /\ call'["command"].last_update_id >= call["command"].last_update_id
        /\ call'["command"].polls # call["command"].polls =>
                call'["command"].offset = call["command"].last_update_id + 1
        /\ ~call'["command"].again
      ]_vars

\* C17, its clause on requests in flight: once the shutdown is signalled a
\* remote call that is under way runs to its answer or its timeout; the
\* loop does not stop in the middle of it.
C17_InFlightCallFinishes ==
    [][(InLoop /\ call["scheduler"].inflight) => pc'["scheduler"] # "stopped"]_vars

(***************************************************************************)
(* Claims about the side codes (checked under SpecNorm)                    *)
(***************************************************************************)
\* the exchange's two side codes
SideCodes == {"A", "B"}

\* the side of an order and the role of a fill as the mapping gives them
ExpectedSide(code) == IF code = "A" THEN "SELL" ELSE "BUY"
ExpectedRole(code) == IF code = "B" THEN "MAKER" ELSE "TAKER"

\* the items of the answer that become records and carry no known side code
FellBack(items, Coerces(_)) ==
    SelectSeq(items, LAMBDA x : Coerces(x) /\ x.side \notin SideCodes)

\* every item that coerces became a record with the expected side or role
DecodedAs(items, Coerces(_), from_api_data(_), field, Expected(_)) ==
    \A i \in 1..Len(items) :
        Coerces(items[i]) =>
            /\ from_api_data(items[i]).exc = "none"
            /\ from_api_data(items[i]).v[field] = Expected(items[i].side)

\* C18: 'A' is SELL and 'B' is BUY for an order, 'A' is TAKER and 'B' is
\* MAKER for a fill; any other or missing code gives BUY, respectively
\* TAKER, the record is produced all the same, and a warning is logged for
\* it.
C18_SideDecoding ==
    (out.op \in {"get_user_fills", "get_open_orders"} /\ raw.resp.status = "ok"
        /\ out.r.exc = "none" /\ out.limit >= Len(raw.resp.items)) =>
        LET items == raw.resp.items
            skipped == Len(items) - Len(out.r.items)
        IN  IF out.op = "get_user_fills"
            THEN /\ DecodedAs(items, FillCoerces, OrderFill_from_api_data,
                              "role", ExpectedRole)
                 /\ out.r.log >= skipped + Len(FellBack(items, FillCoerces))
            ELSE /\ DecodedAs(items, OrderCoerces, Order_from_api_data,
                              "side", ExpectedSide)
                 /\ out.r.log >= skipped + Len(FellBack(items, OrderCoerces))

(***************************************************************************)
(* Claims about the account summary (checked under SpecAccount)            *)
(***************************************************************************)
\* the fraction q equals num / den (den # 0), by cross-multiplication
IsQuotient(q, num, den) == q.d > 0 /\ q.n * den = num * q.d

\* the three derived figures of the summary a as the contract gives them
RatioAsSpecified(a, q) ==
    IF a.account_value <= 0 THEN q.n = 0
    ELSE IsQuotient(q, a.total_margin_used * 100, a.account_value)
LeverageAsSpecified(a, q) ==
    IF a.account_value <= 0 THEN q.n = 0
    ELSE IsQuotient(q, a.total_ntl_pos, a.account_value)
BalanceAsSpecified(a, q) ==
    IsQuotient(q, a.account_value - a.total_margin_used, 1)

\* the summary of the scenario: 10000 / 2500 / 15000
IsScenarioAccount(a) ==
    /\ a.account_value = 10000
    /\ a.total_margin_used = 2500
    /\ a.total_ntl_pos = 15000

\* C19: with an account value of zero or less the cross margin ratio and
\* the cross leverage are 0 and nothing divides by zero; otherwise the ratio
\* is totalMarginUsed / accountValue x 100 and the leverage is totalNtlPos /
\* accountValue; the available balance is accountValue - totalMarginUsed
\* always; 10000 / 2500 / 15000 gives 25, 3/2 and 7500.
C19_AccountFigures ==
    (raw.kind = "account" /\ out # NoOut) =>
        LET a == raw.account
            r == out.r
        IN  /\ r.exc = "none"
            /\ out.op = "cross_margin_ratio" => RatioAsSpecified(a, r.v)
            /\ out.op = "cross_leverage" => LeverageAsSpecified(a, r.v)
            /\ out.op = "available_balance" => BalanceAsSpecified(a, r.v)
            /\ out.op = "to_dict" =>
                /\ RatioAsSpecified(a, r.v.cross_margin_ratio)
                /\ LeverageAsSpecified(a, r.v.cross_leverage)
                /\ BalanceAsSpecified(a, r.v.available_balance)
                /\ IsScenarioAccount(a) =>
                    /\ r.v.cross_margin_ratio = [n |-> 25, d |-> 1]
                    /\ r.v.cross_leverage = [n |-> 3, d |-> 2]
                    /\ r.v.available_balance = [n |-> 7500, d |-> 1]

\* the figures of an account whose value is negative and whose margin is
\* positive were asked for, and the ratio came out 0
C19_Witness ==
    /\ raw.kind = "account"
    /\ out # NoOut
    /\ out.op = "to_dict"
    /\ raw.account.account_value < 0
    /\ raw.account.total_margin_used > 0
    /\ out.r.exc = "none"
    /\ out.r.v.cross_margin_ratio.n = 0

(***************************************************************************)
(* Claims about the portfolio metrics (checked under SpecMetrics)          *)
(***************************************************************************)
\* the reference definitions, over the indices of the list
RECURSIVE SumOver(_, _)
SumOver(f, S) ==
    IF S = {} THEN 0
    ELSE LET i == CHOOSE j \in S : TRUE IN f[i] + SumOver(f, S \ {i})

Least(S) == CHOOSE x \in S : \A y \in S : x <= y
Greatest(S) == CHOOSE x \in S : \A y \in S : x >= y

\* the metrics m of the positions ps and the account a agree with the
\* reference definitions, the average leverage being 0 exactly when
\* WithoutMargin holds of the total margin
MetricsAgree(ps, a, m, WithoutMargin(_)) ==
    LET I == 1..Len(ps)
        total_margin == SumOver([i \in I |-> ps[i].margin_used], I)
        weighted == SumOver([i \in I |-> ps[i].leverage * ps[i].margin_used], I)
        risk == m.risk_metrics
    IN  /\ m.total_positions = Len(ps)
        /\ m.profitable_positions = Cardinality({i \in I : ps[i].unrealized_pnl >= 0})
        /\ m.losing_positions = Cardinality({i \in I : ps[i].unrealized_pnl < 0})
        /\ m.profitable_positions + m.losing_positions = m.total_positions
        /\ IF ps = <<>> \/ WithoutMargin(total_margin)
           THEN m.average_leverage.n = 0
           ELSE IsQuotient(m.average_leverage, weighted, total_margin)
        /\ IF ps = <<>> \/ a.account_value <= 0
           THEN risk.max_drawdown_risk.n = 0 /\ risk.concentration_risk.n = 0
           ELSE /\ IsQuotient(risk.max_drawdown_risk,
                       Abs(Least({ps[i].unrealized_pnl : i \in I})) * 100,
                       a.account_value)
                /\ IsQuotient(risk.concentration_risk,
                       Greatest({ps[i].size * ps[i].mark_price : i \in I}) * 100,
                       a.account_value)
        /\ ps = <<>> =>
            /\ m.total_unrealized_pnl = 0
            /\ m.largest_position_value = 0

MetricsReturned == raw.kind = "metrics" /\ out # NoOut /\ out.op = "calculate_portfolio_metrics"

\* C20 as stated: calculate_portfolio_metrics raises nothing and agrees with
\* the reference definitions for every list and account, the weighted
\* average leverage being 0 if the total margin is 0 and the quotient
\* sum(leverage x marginUsed) / sum(marginUsed) otherwise.
C20_MetricsAsStated ==
    MetricsReturned =>
        /\ out.r.exc = "none"
        /\ MetricsAgree(raw.positions, raw.account, out.r.v, LAMBDA t : t = 0)

\* C20, amended: calculate_portfolio_metrics raises nothing and agrees with
\* the reference definitions for every list and account, the weighted
\* average leverage being 0 if the total margin is 0 or less and the
\* quotient sum(leverage x marginUsed) / sum(marginUsed) otherwise.
C20_MetricsGuarded ==
    MetricsReturned =>
        /\ out.r.exc = "none"
        /\ MetricsAgree(raw.positions, raw.account, out.r.v, LAMBDA t : t <= 0)

\* the metrics of two positions, one of them with a PnL of exactly 0, were
\* computed for an account of positive value and a negative total margin
C20_Witness ==
    /\ MetricsReturned
    /\ Len(raw.positions) = 2
    /\ raw.positions[1].unrealized_pnl = 0
    /\ raw.positions[2].unrealized_pnl < 0
    /\ raw.positions[1].margin_used + raw.positions[2].margin_used < 0
    /\ raw.account.account_value > 0
    /\ out.r.exc = "none"
    /\ out.r.v.profitable_positions = 1
    /\ out.r.v.average_leverage.n = 0

(***************************************************************************)
(* Claims about the unified monitor (checked under SpecUnified)            *)
(***************************************************************************)
UniReported == "handler" \in DOMAIN out /\ out.op = "report"

\* C21: the positions and the account data reported together in one message
\* of the unified monitor come from the same fetch cycle, under any
\* interleaving of the scheduler thread and the bot thread.
C21_MessageFromOneCycle ==
    (UniReported /\ out.handler \in {"update", "position"}) =>
        out.positions.cycle = out.account_data.cycle

\* C22: get_mark_prices, fetch_positions and fetch_account_metrics called
\* without force_refresh never return a cached value that was fetched more
\* than cache_duration before the call.
C22_NoStaleHit ==
    \A c \in Callers :
        (pc[c] # "idle" /\ "handler" \in DOMAIN call[c]) =>
            call[c].max_age <= cache_duration

\* C23: a scheduled update reports only data fetched during that update:
\* the positions, the account data and the mark prices that hydrated the
\* positions were all fetched by remote calls of the update itself.
C23_ScheduledUpdateIsFresh ==
    (UniReported /\ out.handler = "update") =>
        /\ out.positions.cycle = out.id /\ out.positions.at >= out.started
        /\ out.account_data.cycle = out.id /\ out.account_data.at >= out.started
        /\ out.positions.marks # None =>
            (out.positions.marks.cycle = out.id /\ out.positions.marks.at >= out.started)

(***************************************************************************)
(* Claims about the command handlers of the bot (checked under SpecBot)    *)
(***************************************************************************)
BotProcessed == "update" \in DOMAIN out /\ out.op = "processed"

\* C24: an update from a chat other than the configured one, a text
\* message or a callback query, runs no command handler: it triggers no
\* data fetch and no message send.
C24_OnlyConfiguredChat ==
    (BotProcessed /\ out.update.chat # "configured") =>
        (out.handler = "none" /\ out.fetches = 0 /\ out.sends = 0)

\* C30: handling a registered command from the configured chat results in
\* at least one send_message attempt.
C30_EveryCommandReplies ==
    (BotProcessed /\ out.update.chat = "configured"
        /\ out.handler \notin {"none", "unknown"}) =>
        out.sends >= 1

(***************************************************************************)
(* Claims about the position monitor (checked under SpecMonitor)           *)
(***************************************************************************)
\* a cycle of the monitor has ended and the monitor sleeps
CycleEnded == "update_count" \in DOMAIN out /\ out.phase = "sleeping" /\ out.update_count > 0

\* the fetch of the latest cycle raised or returned no data
CycleFailed ==
    LET ret == call["scheduler"].ret
    IN  "raised" \in DOMAIN ret \/ ret.positions = None \/ ret.account = None

\* C25: on every successful cycle after the first that is not a periodic
\* update cycle, each symbol of the current positions that the previous
\* successful cycle did not hold is named in a new-positions alert,
\* whatever the previous list was, the empty list included.
C25_NewPositionsAlerted ==
    (CycleEnded /\ ~CycleFailed /\ out.cycle.before.last_positions # None
        /\ out.update_count % 12 # 0) =>
        \A i \in 1..Len(out.cycle.new_positions) :
            \E j \in 1..Len(out.cycle.sent) :
                /\ out.cycle.sent[j].kind = "new"
                /\ \E n \in 1..Len(out.cycle.sent[j].symbols) :
                    out.cycle.sent[j].symbols[n] = out.cycle.new_positions[i]

\* C26: a cycle whose fetch fails changes nothing but the cycle counter:
\* when it ends, last_positions, last_account and the cache are as the
\* cycle found them and no message has been sent.
C26_FailedCycleChangesNothing ==
    [][("update_count" \in DOMAIN out /\ out.phase = "cycle"
            /\ out'.phase = "sleeping" /\ CycleFailed) =>
        /\ out'.update_count = out.update_count
        /\ out'.last_positions = out.cycle.before.last_positions
        /\ out'.last_account = out.cycle.before.last_account
        /\ cache' = out.cycle.before.cache
        /\ out'.cycle.sent = <<>>]_vars

\* a cycle has failed that found positions remembered from an earlier
\* cycle and entries in the cache
C26_Witness ==
    /\ CycleEnded
    /\ CycleFailed
    /\ out.cycle.before.last_positions # None
    /\ out.cycle.before.cache # EmptyDict
    /\ out.last_positions # None

\* C27: cleanup_expired is invoked on every cycle whose update_count is a
\* multiple of 10, whether or not the fetch of the cycle succeeded.
C27_CleanupEveryTenth ==
    (CycleEnded /\ out.update_count % 10 = 0) => out.cycle.cleaned

\* C29: a cycle that fails is followed by the 30-second retry wait, and
\* only a successful cycle by the refresh_interval sleep.
C29_RetryWaitAfterFailure ==
    CycleEnded =>
        out.cycle.slept = (IF CycleFailed THEN monitor_retry_delay ELSE refresh_interval)

(***************************************************************************)
(* Claims about the limits of cached fills and orders (checked under       *)
(* SpecSeq)                                                                *)
(***************************************************************************)
\* the remote data sets: the answers that hold records
RemoteFills == CHOOSE resp \in FillsResponses : resp.status = "ok"
RemoteOrders == CHOOSE resp \in OrdersResponses : resp.status = "ok"

\* the command handler's call of op has returned cached records that were
\* fetched from the remote data set
HitReturned(op) ==
    LET k == call["command"]
    IN  /\ k.op = op
        /\ k.returned
        /\ k.hit
        /\ ~k.ret.failed

\* C28: a cache hit of get_user_fills(limit=n, use_cache=True) or
\* get_open_orders(limit=n, use_cache=True) returns what a fresh fetch with
\* limit n returns from the same remote data, whatever limits the earlier
\* cached calls used.
C28_HitEqualsFreshFetch ==
    /\ HitReturned("get_user_fills") =>
            call["command"].ret.items
                = get_user_fills(RemoteFills, call["command"].limit).items
    /\ HitReturned("get_open_orders") =>
            call["command"].ret.items
                = get_open_orders(RemoteOrders, call["command"].limit).items

====
